---------------------------- MODULE Spec2Model ----------------------------
(***************************************************************************)
(* Wallet login of the data service: challenge, login, session cookie,     *)
(* capability extraction and the route guard (src/src/auth_handler.rs,     *)
(* src/src/auth_middleware.rs, src/src/auth.rs, src/src/errors.rs,         *)
(* src/src/config.rs).                                                     *)
(*                                                                         *)
(* Text is a sequence of ASCII codes and binary data a sequence of bytes   *)
(* (0..255), so that the cookie format, the '.' separator, base-64 and the *)
(* byte prefixes are what they are in the program.  The code of the        *)
(* repository is translated operator by operator.  The crates it calls    *)
(* are modelled as follows:                                                *)
(*   - base64 (STANDARD engine), serde_json on the session type and        *)
(*     String::from_utf8: computed, on printable ASCII input;              *)
(*   - HMAC-SHA256: a keyed checksum of the data (no collision on the      *)
(*     inputs explored: any one-character change of the data changes it,   *)
(*     and so does any change of one byte of the key);                     *)
(*   - bs58, SHA-256, BLAKE2b and the three signature schemes: the real    *)
(*     functions, restricted to the finite tables of vectors below.        *)
(***************************************************************************)
EXTENDS Integers, Sequences, FiniteSets, TLC

VARIABLES config, jars, minted, last

vars == <<config, jars, minted, last>>

-----------------------------------------------------------------------------
(* Option, Result and AppError                                             *)

None == <<"None">>
Some(v) == <<"Some", v>>
IsSome(o) == o[1] = "Some"
Unwrap(o) == o[2]

Ok(v) == [tag |-> "Ok", val |-> v]
Err(e) == [tag |-> "Err", err |-> e]
IsOk(r) == r.tag = "Ok"

\* let v = e; ...
Bind(v, Rest(_)) == Rest(v)
\* let v = e?; ...
Try(r, Rest(_)) == IF IsOk(r) THEN Rest(r.val) ELSE r
\* let v = e.map_err(|e| MapErr(e))?; ...
TryMapErr(r, MapErr(_), Rest(_)) == IF IsOk(r) THEN Rest(r.val) ELSE Err(MapErr(r.err))

\* errors.rs: enum AppError.  msg is the message, as the list of its parts.
Unauthorized == [kind |-> "Unauthorized", msg |-> <<>>]
ValidationError(m) == [kind |-> "ValidationError", msg |-> m]
Internal(m) == [kind |-> "Internal", msg |-> m]

\* errors.rs: #[error(..)] Display of AppError, used by format!("{}", e)
Display(e) ==
    CASE e.kind = "Unauthorized" -> <<"Unauthorized">>
      [] e.kind = "ValidationError" -> <<"Validation error: ">> \o e.msg
      [] e.kind = "Internal" -> <<"Internal error: ">> \o e.msg

-----------------------------------------------------------------------------
(* Sequences                                                               *)

Slice(s, from, to) == [i \in 1..(to - from + 1) |-> s[from + i - 1]]
StartsWith(s, p) == Len(s) >= Len(p) /\ Slice(s, 1, Len(p)) = p
Range(s) == {s[i] : i \in 1..Len(s)}
Contains(vec, x) == \E i \in 1..Len(vec) : vec[i] = x

\* str::rfind('.'): the last position of the character, 0 when absent
RFind(s, c) ==
    LET at == {i \in 1..Len(s) : s[i] = c}
    IN IF at = {} THEN 0 ELSE CHOOSE i \in at : \A j \in at : j <= i

DOT == 46

-----------------------------------------------------------------------------
(* base64::engine::general_purpose::STANDARD                               *)

\* A-Z a-z 0-9 + /
B64Alphabet ==
    [i \in 1..26 |-> 64 + i] \o [i \in 1..26 |-> 96 + i] \o
    [i \in 1..10 |-> 47 + i] \o <<43, 47>>
B64Symbols == Range(B64Alphabet)
\* the place of a symbol in the alphabet, from 0
B64Sextet(c) ==
    CASE c \in 65..90 -> c - 65
      [] c \in 97..122 -> c - 71
      [] c \in 48..57 -> c + 4
      [] c = 43 -> 62
      [] c = 47 -> 63

\* STANDARD.encode: three bytes to four symbols, '=' (61) padding
base64_encode(bytes) ==
    LET n == Len(bytes)
        At(i) == IF i <= n THEN bytes[i] ELSE 0
        Sym(k) ==
            LET g == (k - 1) \div 4
                r == (k - 1) % 4
                b0 == At(3 * g + 1)
                b1 == At(3 * g + 2)
                b2 == At(3 * g + 3)
            IN CASE r = 0 -> B64Alphabet[(b0 \div 4) + 1]
                 [] r = 1 -> B64Alphabet[((b0 % 4) * 16 + (b1 \div 16)) + 1]
                 [] r = 2 -> IF 3 * g + 2 > n THEN 61
                             ELSE B64Alphabet[((b1 % 16) * 4 + (b2 \div 64)) + 1]
                 [] r = 3 -> IF 3 * g + 3 > n THEN 61
                             ELSE B64Alphabet[(b2 % 64) + 1]
    IN [k \in 1..(4 * ((n + 2) \div 3)) |-> Sym(k)]

\* STANDARD.decode: canonical padding required, no symbol outside the
\* alphabet, no non-zero trailing bits
base64_decode(text) ==
    LET n == Len(text)
        pads == IF n >= 2 /\ text[n] = 61 /\ text[n - 1] = 61 THEN 2
                ELSE IF n >= 1 /\ text[n] = 61 THEN 1 ELSE 0
        body == n - pads
        S(k) == IF k <= body THEN B64Sextet(text[k]) ELSE 0
        Byte(m) ==
            LET g == (m - 1) \div 3
                r == (m - 1) % 3
            IN CASE r = 0 -> S(4 * g + 1) * 4 + (S(4 * g + 2) \div 16)
                 [] r = 1 -> (S(4 * g + 2) % 16) * 16 + (S(4 * g + 3) \div 4)
                 [] r = 2 -> (S(4 * g + 3) % 4) * 64 + S(4 * g + 4)
    IN IF n % 4 # 0 THEN Err("InvalidPadding")
       ELSE IF \E k \in 1..body : text[k] \notin B64Symbols
            THEN Err("InvalidByte")
       ELSE IF pads = 1 /\ S(body) % 4 # 0 THEN Err("InvalidLastSymbol")
       ELSE IF pads = 2 /\ S(body) % 16 # 0 THEN Err("InvalidLastSymbol")
       ELSE Ok([m \in 1..(3 * (n \div 4) - pads) |-> Byte(m)])

\* String::from_utf8, on the single-byte range
String_from_utf8(bytes) ==
    IF \A i \in 1..Len(bytes) : bytes[i] < 128 THEN Ok(bytes) ELSE Err("Utf8Error")

-----------------------------------------------------------------------------
(* HMAC-SHA256 (hmac, sha2 crates): a keyed 32-byte checksum               *)

RECURSIVE WeightedSum(_, _, _)
WeightedSum(data, lo, hi) ==
    IF lo > hi THEN 0
    ELSE IF lo = hi THEN (data[lo] * (lo + 1)) % 65521
    ELSE LET mid == (lo + hi) \div 2
         IN (WeightedSum(data, lo, mid) + WeightedSum(data, mid + 1, hi)) % 65521

\* Mac::update(data) then finalize(): 32 bytes, a function of key and data
HmacSha256(key, data) ==
    LET h == (WeightedSum(data, 1, Len(data)) + 257 * Len(data)) % 65521
        D(j) == CASE j = 1 -> h % 256
                  [] j = 2 -> h \div 256
                  [] OTHER -> (h * j) % 256
    IN [j \in 1..32 |-> (D(j) + key[j]) % 256]

\* Mac::verify_slice: the tag must have the length of the MAC and equal it
HmacVerifySlice(key, data, tag) ==
    IF tag = HmacSha256(key, data) THEN Ok(TRUE) ELSE Err("MacError")

-----------------------------------------------------------------------------
(* serde_json on TezosAdminSession { address: String }                     *)

\* {"address":"
JsonOpen == <<123, 34, 97, 100, 100, 114, 101, 115, 115, 34, 58, 34>>
\* "}
JsonClose == <<34, 125>>

\* a string as the serializer writes it inside the quotes: '"' (34) and
\* '\' (92) get a '\' in front
JsonEscape(s) ==
    LET special == {i \in 1..Len(s) : s[i] \in {34, 92}}
        \* where the text of s[i] starts in the output
        Start(i) == i + Cardinality({j \in special : j < i})
        Source(k) == CHOOSE i \in 1..Len(s) :
                        Start(i) <= k /\ k <= Start(i) + (IF i \in special THEN 1 ELSE 0)
    IN IF special = {} THEN s
       ELSE [k \in 1..(Len(s) + Cardinality(special)) |->
                IF Source(k) \in special /\ k = Start(Source(k)) THEN 92
                ELSE s[Source(k)]]

\* auth.rs: struct TezosAdminSession
TezosAdminSession(address) == [address |-> address]

\* serde_json::to_string(&TezosAdminSession)
serde_json_to_string(session) ==
    Ok(JsonOpen \o JsonEscape(session.address) \o JsonClose)

\* the body s of a string literal read back: Ok(its characters), or Err on a
\* raw quote, a dangling or unknown escape or a control character
JsonUnescape(s) ==
    LET n == Len(s)
        \* the number of '\' right before position i
        Run(i) == (i - 1) - (IF \E j \in 1..(i - 1) : s[j] # 92
                             THEN CHOOSE j \in 1..(i - 1) :
                                     s[j] # 92 /\ \A m \in (j + 1)..(i - 1) : s[m] = 92
                             ELSE 0)
        escaped == {i \in 1..n : Run(i) % 2 = 1}
        escapes == {i \in 1..n : s[i] = 92 /\ i \notin escaped}
        kept == (1..n) \ escapes
        Nth(k) == CHOOSE i \in kept : Cardinality({j \in kept : j <= i}) = k
    IN IF \E i \in 1..n : s[i] < 32 THEN Err("json")
       ELSE IF \A i \in 1..n : s[i] # 92
            THEN IF \E i \in 1..n : s[i] = 34 THEN Err("json") ELSE Ok(s)
       ELSE IF \E i \in (1..n) \ escaped : s[i] = 34 THEN Err("json")
       ELSE IF \E i \in escapes : i = n \/ s[i + 1] \notin {34, 92} THEN Err("json")
       ELSE Ok([k \in 1..Cardinality(kept) |-> s[Nth(k)]])

\* serde_json::from_str::<TezosAdminSession>, on the compact form the
\* serializer writes (one "address" member, no white space)
serde_json_from_str(text) ==
    LET n == Len(text)
    IN IF n < Len(JsonOpen) + Len(JsonClose) THEN Err("json")
       ELSE IF ~StartsWith(text, JsonOpen) THEN Err("json")
       ELSE IF Slice(text, n - 1, n) # JsonClose THEN Err("json")
       ELSE LET body == JsonUnescape(Slice(text, Len(JsonOpen) + 1, n - 2))
            IN IF IsOk(body) THEN Ok(TezosAdminSession(body.val)) ELSE body

-----------------------------------------------------------------------------
(* auth_handler.rs: the session cookie                                     *)

\* (variant) the MAC is computed over the JSON text, not over its base64 form
sign_session_cookie_mac_of_json(session_json, hmac_key) ==
    LET encoded_data == base64_encode(session_json)
        signature_bytes == HmacSha256(hmac_key, session_json)
        encoded_sig == base64_encode(signature_bytes)
    IN encoded_data \o <<DOT>> \o encoded_sig

\* fn sign_session_cookie(session_json, hmac_key) -> String
sign_session_cookie(session_json, hmac_key) ==
    LET encoded_data == base64_encode(session_json)
        signature_bytes == HmacSha256(hmac_key, encoded_data)
        encoded_sig == base64_encode(signature_bytes)
    IN encoded_data \o <<DOT>> \o encoded_sig

\* (variant) the MAC is decoded but the result of comparing it is dropped
verify_session_cookie_mac_ignored(cookie_value, hmac_key) ==
    LET dot_pos == RFind(cookie_value, DOT)
        encoded_data == IF dot_pos # 0 THEN Slice(cookie_value, 1, dot_pos - 1)
                        ELSE cookie_value
        encoded_sig == Slice(cookie_value, dot_pos + 1, Len(cookie_value))
        session_bytes == base64_decode(encoded_data)
    IN IF dot_pos # 0 /\ ~IsOk(base64_decode(encoded_sig)) THEN None
       ELSE IF ~IsOk(session_bytes) THEN None
       ELSE IF ~IsOk(String_from_utf8(session_bytes.val)) THEN None
       ELSE LET session == serde_json_from_str(session_bytes.val)
            IN IF IsOk(session) THEN Some(session.val) ELSE None

\* (variant) only the signed form is taken: a value without '.' is refused
verify_session_cookie_signed_only(cookie_value, hmac_key) ==
    LET dot_pos == RFind(cookie_value, DOT)
        encoded_data == Slice(cookie_value, 1, dot_pos - 1)
        expected_sig_bytes == base64_decode(Slice(cookie_value, dot_pos + 1,
                                                  Len(cookie_value)))
        session_bytes == base64_decode(encoded_data)
    IN IF dot_pos = 0 THEN None
       ELSE IF ~IsOk(expected_sig_bytes) THEN None
       ELSE IF ~IsOk(HmacVerifySlice(hmac_key, encoded_data, expected_sig_bytes.val))
       THEN None
       ELSE IF ~IsOk(session_bytes) THEN None
       ELSE IF ~IsOk(String_from_utf8(session_bytes.val)) THEN None
       ELSE LET session == serde_json_from_str(session_bytes.val)
            IN IF IsOk(session) THEN Some(session.val) ELSE None

\* pub fn verify_session_cookie(cookie_value, hmac_key) -> Option<TezosAdminSession>
verify_session_cookie(cookie_value, hmac_key) ==
    LET dot_pos == RFind(cookie_value, DOT)
    IN IF dot_pos # 0
       THEN LET encoded_data == Slice(cookie_value, 1, dot_pos - 1)
                encoded_sig == Slice(cookie_value, dot_pos + 1, Len(cookie_value))
                expected_sig_bytes == base64_decode(encoded_sig)
            IN IF ~IsOk(expected_sig_bytes) THEN None
               ELSE IF ~IsOk(HmacVerifySlice(hmac_key, encoded_data,
                                             expected_sig_bytes.val)) THEN None
               ELSE LET session_bytes == base64_decode(encoded_data)
                    IN IF ~IsOk(session_bytes) THEN None
                       ELSE LET session_str == String_from_utf8(session_bytes.val)
                            IN IF ~IsOk(session_str) THEN None
                               ELSE LET session == serde_json_from_str(session_str.val)
                                    IN IF IsOk(session) THEN Some(session.val) ELSE None
       ELSE \* legacy format: plain base64, no signature
            LET session_bytes == base64_decode(cookie_value)
            IN IF ~IsOk(session_bytes) THEN None
               ELSE LET session_str == String_from_utf8(session_bytes.val)
                    IN IF ~IsOk(session_str) THEN None
                       ELSE LET session == serde_json_from_str(session_str.val)
                            IN IF IsOk(session) THEN Some(session.val) ELSE None

-----------------------------------------------------------------------------
(* Vectors.  Every text, key, signature and digest below is a value of the  *)
(* real functions (base-58, SHA-256, BLAKE2b, Ed25519, ECDSA over          *)
(* secp256k1 and P-256 as the k256/p256 Verifier impls compute it).        *)

\* BEGIN VECTORS
(* Public keys, as submitted in public_key *)

\* edpktfpdouHjAze9TeFcihdpeMng7FSCWbY4BozpSffZ9z85nyyBBB  (Ed25519 key A)
pkA ==
    <<101, 100, 112, 107, 116, 102, 112, 100, 111, 117, 72, 106, 65, 122,
    101, 57, 84, 101, 70, 99, 105, 104, 100, 112, 101, 77, 110, 103, 55, 70,
    83, 67, 87, 98, 89, 52, 66, 111, 122, 112, 83, 102, 102, 90, 57, 122, 56,
    53, 110, 121, 121, 66, 66, 66>>

\* edpkuZpp81M8NmaFbueXY8bk7EP9V54XTnwsFFt77Z5FTPs2QzLU9r  (Ed25519 key B)
pkB ==
    <<101, 100, 112, 107, 117, 90, 112, 112, 56, 49, 77, 56, 78, 109, 97, 70,
    98, 117, 101, 88, 89, 56, 98, 107, 55, 69, 80, 57, 86, 53, 52, 88, 84,
    110, 119, 115, 70, 70, 116, 55, 55, 90, 53, 70, 84, 80, 115, 50, 81, 122,
    76, 85, 57, 114>>

\* sppk7ba324GRzDHbKxuMvZpXvWpcTVLgK1nQB7NhiNjq4Ytwm7cfBJo  (secp256k1 key C)
pkC ==
    <<115, 112, 112, 107, 55, 98, 97, 51, 50, 52, 71, 82, 122, 68, 72, 98,
    75, 120, 117, 77, 118, 90, 112, 88, 118, 87, 112, 99, 84, 86, 76, 103,
    75, 49, 110, 81, 66, 55, 78, 104, 105, 78, 106, 113, 52, 89, 116, 119,
    109, 55, 99, 102, 66, 74, 111>>

\* p2pk66Qe5Esq7N6nTuqVakESj2VapDdsyvF3UNQphZZ32mXL1Wu6B4V  (P-256 key D)
pkD ==
    <<112, 50, 112, 107, 54, 54, 81, 101, 53, 69, 115, 113, 55, 78, 54, 110,
    84, 117, 113, 86, 97, 107, 69, 83, 106, 50, 86, 97, 112, 68, 100, 115,
    121, 118, 70, 51, 85, 78, 81, 112, 104, 90, 90, 51, 50, 109, 88, 76, 49,
    87, 117, 54, 66, 52, 86>>

\* edpktf72Mg9Kbbn6gTRrNqP2d96K1a9Q1MTKUHAX6Xy6pJr8uzipUZ  (edpk, 32 bytes that are no point of the curve)
pkEdNoPoint ==
    <<101, 100, 112, 107, 116, 102, 55, 50, 77, 103, 57, 75, 98, 98, 110, 54,
    103, 84, 82, 114, 78, 113, 80, 50, 100, 57, 54, 75, 49, 97, 57, 81, 49,
    77, 84, 75, 85, 72, 65, 88, 54, 88, 121, 54, 112, 74, 114, 56, 117, 122,
    105, 112, 85, 90>>

\* sppk7ZJdra46F1Xz8BG1JcjteSXx9gyyeSKcm7BuH7K3zQiMcq6Ua5e  (sppk, tag 0x02 and an x that is not on the curve)
pkSpOff ==
    <<115, 112, 112, 107, 55, 90, 74, 100, 114, 97, 52, 54, 70, 49, 88, 122,
    56, 66, 71, 49, 74, 99, 106, 116, 101, 83, 88, 120, 57, 103, 121, 121,
    101, 83, 75, 99, 109, 55, 66, 117, 72, 55, 75, 51, 122, 81, 105, 77, 99,
    113, 54, 85, 97, 53, 101>>

\* p2pk64aAPNfPLcxAAZeWPuhjkEzFRukFAqGX9ccayobA8uykJKRhgAh  (p2pk, tag 0x02 and an x that is not on the curve)
pkP2Off ==
    <<112, 50, 112, 107, 54, 52, 97, 65, 80, 78, 102, 80, 76, 99, 120, 65,
    65, 90, 101, 87, 80, 117, 104, 106, 107, 69, 122, 70, 82, 117, 107, 70,
    65, 113, 71, 88, 57, 99, 99, 97, 121, 111, 98, 65, 56, 117, 121, 107, 74,
    75, 82, 104, 103, 65, 104>>

\* sppk7jM1iz4ZPuzVsFEBYtJXjoDi7woYuq9uKff8gyVR3AvVjaQfKTQ  (sppk, 33 bytes under the undefined SEC1 tag 0x07)
pkSpBadTag ==
    <<115, 112, 112, 107, 55, 106, 77, 49, 105, 122, 52, 90, 80, 117, 122,
    86, 115, 70, 69, 66, 89, 116, 74, 88, 106, 111, 68, 105, 55, 119, 111,
    89, 117, 113, 57, 117, 75, 102, 102, 56, 103, 121, 86, 82, 51, 65, 118,
    86, 106, 97, 81, 102, 75, 84, 81>>

\* p2pk6G8MxQ7zNVUv91k27eLSVdVTPniUESTRQZmMvJzX13ZGUdSpT8N  (p2pk, 33 bytes under the undefined SEC1 tag 0x07)
pkP2BadTag ==
    <<112, 50, 112, 107, 54, 71, 56, 77, 120, 81, 55, 122, 78, 86, 85, 118,
    57, 49, 107, 50, 55, 101, 76, 83, 86, 100, 86, 84, 80, 110, 105, 85, 69,
    83, 84, 82, 81, 90, 109, 77, 118, 74, 122, 88, 49, 51, 90, 71, 85, 100,
    83, 112, 84, 56, 78>>

\* edpktfpdouHjAze9TeFcihdpeMng7FSCWbY4BozpSffZ9z85nyyBB2  (key A with its last character changed)
pkBadSum ==
    <<101, 100, 112, 107, 116, 102, 112, 100, 111, 117, 72, 106, 65, 122,
    101, 57, 84, 101, 70, 99, 105, 104, 100, 112, 101, 77, 110, 103, 55, 70,
    83, 67, 87, 98, 89, 52, 66, 111, 122, 112, 83, 102, 102, 90, 57, 122, 56,
    53, 110, 121, 121, 66, 66, 50>>

\* edpktfpdou0jAze9TeFcihdpeMng7FSCWbY4BozpSffZ9z85nyyBBB  (key A with a '0', which is no base-58 digit)
pkNotB58 ==
    <<101, 100, 112, 107, 116, 102, 112, 100, 111, 117, 48, 106, 65, 122,
    101, 57, 84, 101, 70, 99, 105, 104, 100, 112, 101, 77, 110, 103, 55, 70,
    83, 67, 87, 98, 89, 52, 66, 111, 122, 112, 83, 102, 102, 90, 57, 122, 56,
    53, 110, 121, 121, 66, 66, 66>>

\* edpktfpdouHjAze9TeFcihdpeMng7FSCWbY4BozpSffZ9z85nyyB  (key A without its last two characters)
pkCut ==
    <<101, 100, 112, 107, 116, 102, 112, 100, 111, 117, 72, 106, 65, 122,
    101, 57, 84, 101, 70, 99, 105, 104, 100, 112, 101, 77, 110, 103, 55, 70,
    83, 67, 87, 98, 89, 52, 66, 111, 122, 112, 83, 102, 102, 90, 57, 122, 56,
    53, 110, 121, 121, 66>>

\* edpk  (the four characters edpk)
pkShort ==
    <<101, 100, 112, 107>>

(* Addresses (pkh) *)

\* tz1haTDx9MiA53qTAkchH9sUWoKfFABN6ggh
tzA ==
    <<116, 122, 49, 104, 97, 84, 68, 120, 57, 77, 105, 65, 53, 51, 113, 84,
    65, 107, 99, 104, 72, 57, 115, 85, 87, 111, 75, 102, 70, 65, 66, 78, 54,
    103, 103, 104>>

\* tz1MsZxMSJdiUV9hVs4UKAMrXtksDvxWAZe2
tzB ==
    <<116, 122, 49, 77, 115, 90, 120, 77, 83, 74, 100, 105, 85, 86, 57, 104,
    86, 115, 52, 85, 75, 65, 77, 114, 88, 116, 107, 115, 68, 118, 120, 87,
    65, 90, 101, 50>>

\* tz2TesjB19ityZcn9bpZRJfcJGJJy15BJGuh
tzC ==
    <<116, 122, 50, 84, 101, 115, 106, 66, 49, 57, 105, 116, 121, 90, 99,
    110, 57, 98, 112, 90, 82, 74, 102, 99, 74, 71, 74, 74, 121, 49, 53, 66,
    74, 71, 117, 104>>

\* tz3SgwMQbVVKztUa3AXsFCaCNzXLFZcjKcsU
tzD ==
    <<116, 122, 51, 83, 103, 119, 77, 81, 98, 86, 86, 75, 122, 116, 85, 97,
    51, 65, 88, 115, 70, 67, 97, 67, 78, 122, 88, 76, 70, 90, 99, 106, 75,
    99, 115, 85>>

\* tz1UfUefABphcGvv4ZUsPJn12cnXLFaJG7C1
tzEdNoPoint ==
    <<116, 122, 49, 85, 102, 85, 101, 102, 65, 66, 112, 104, 99, 71, 118,
    118, 52, 90, 85, 115, 80, 74, 110, 49, 50, 99, 110, 88, 76, 70, 97, 74,
    71, 55, 67, 49>>

\* tz2Nv4Xv5Ka59G3fvmd1aRb5wuFv9LT8SA4y
tzSpOff ==
    <<116, 122, 50, 78, 118, 52, 88, 118, 53, 75, 97, 53, 57, 71, 51, 102,
    118, 109, 100, 49, 97, 82, 98, 53, 119, 117, 70, 118, 57, 76, 84, 56, 83,
    65, 52, 121>>

\* tz3cbHXNmuwRaywmJXXLEmyHdmDmjXD6ot8M
tzP2Off ==
    <<116, 122, 51, 99, 98, 72, 88, 78, 109, 117, 119, 82, 97, 121, 119, 109,
    74, 88, 88, 76, 69, 109, 121, 72, 100, 109, 68, 109, 106, 88, 68, 54,
    111, 116, 56, 77>>

(* Signatures, as submitted in signature *)

\* edsigtzb7eeSm8nDHts9zNgy..  (key A over challenge1)
sigA1 ==
    <<101, 100, 115, 105, 103, 116, 122, 98, 55, 101, 101, 83, 109, 56, 110,
    68, 72, 116, 115, 57, 122, 78, 103, 121, 106, 74, 68, 55, 69, 49, 114,
    77, 119, 113, 116, 54, 101, 106, 107, 85, 66, 70, 78, 118, 121, 115, 107,
    90, 89, 71, 121, 119, 104, 80, 115, 87, 76, 65, 88, 49, 67, 113, 115,
    110, 118, 118, 113, 65, 107, 101, 118, 88, 104, 88, 78, 117, 81, 119,
    103, 112, 86, 49, 66, 109, 65, 77, 67, 112, 118, 88, 77, 122, 82, 104,
    119, 84, 69, 118, 56>>

\* edsigtnzxnc1ofWC3LovoRuN..  (key A over challenge2)
sigA2 ==
    <<101, 100, 115, 105, 103, 116, 110, 122, 120, 110, 99, 49, 111, 102, 87,
    67, 51, 76, 111, 118, 111, 82, 117, 78, 49, 110, 86, 77, 52, 88, 77, 65,
    65, 99, 100, 86, 105, 117, 69, 75, 69, 74, 85, 69, 117, 54, 89, 50, 49,
    51, 109, 102, 118, 97, 74, 56, 98, 54, 67, 87, 107, 72, 114, 71, 101, 81,
    104, 104, 104, 98, 117, 113, 49, 75, 57, 99, 89, 111, 88, 115, 52, 101,
    72, 86, 100, 54, 49, 87, 110, 107, 88, 116, 118, 120, 85, 98, 98, 107,
    71>>

\* edsigu1PftNd3yaWsHwK1QaV..  (key B over challenge1)
sigB1 ==
    <<101, 100, 115, 105, 103, 117, 49, 80, 102, 116, 78, 100, 51, 121, 97,
    87, 115, 72, 119, 75, 49, 81, 97, 86, 122, 97, 77, 53, 54, 104, 112, 114,
    101, 71, 99, 71, 80, 103, 86, 71, 101, 84, 100, 49, 66, 55, 97, 86, 66,
    72, 113, 103, 113, 49, 57, 121, 83, 104, 83, 69, 52, 74, 57, 81, 54, 82,
    105, 53, 87, 116, 102, 99, 104, 83, 109, 103, 86, 117, 85, 72, 81, 66,
    115, 104, 107, 89, 102, 120, 103, 80, 110, 109, 88, 118, 104, 89, 55,
    122, 89>>

\* spsig1Zc9PLdUuqWLRFUK4nE..  (key C over challenge1)
sigC1 ==
    <<115, 112, 115, 105, 103, 49, 90, 99, 57, 80, 76, 100, 85, 117, 113, 87,
    76, 82, 70, 85, 75, 52, 110, 69, 74, 112, 67, 101, 115, 104, 86, 67, 104,
    103, 54, 116, 106, 119, 103, 112, 104, 50, 112, 103, 86, 87, 118, 56,
    104, 121, 69, 88, 89, 100, 68, 70, 85, 69, 66, 90, 84, 68, 50, 100, 99,
    113, 51, 72, 71, 70, 111, 113, 111, 76, 49, 78, 56, 106, 90, 76, 120, 84,
    68, 83, 87, 100, 76, 76, 54, 86, 121, 80, 77, 70, 104, 113, 102, 120,
    71>>

\* p2sigPUoXa1GiREzR6Z5LwRg..  (key D over challenge1)
sigD1 ==
    <<112, 50, 115, 105, 103, 80, 85, 111, 88, 97, 49, 71, 105, 82, 69, 122,
    82, 54, 90, 53, 76, 119, 82, 103, 51, 115, 89, 117, 84, 86, 86, 69, 101,
    65, 52, 122, 71, 119, 65, 106, 76, 70, 118, 49, 85, 54, 109, 120, 51, 80,
    113, 54, 72, 76, 65, 71, 85, 117, 70, 85, 89, 113, 65, 106, 119, 99, 83,
    84, 114, 121, 115, 101, 52, 70, 113, 56, 71, 118, 121, 75, 72, 82, 51,
    112, 103, 107, 84, 97, 106, 81, 49, 55, 107, 72, 114, 54, 122, 50>>

\* edsigtzb7eeSm8nDHts9zNgy..  (sigA1 with one bit flipped)
sigA1flip ==
    <<101, 100, 115, 105, 103, 116, 122, 98, 55, 101, 101, 83, 109, 56, 110,
    68, 72, 116, 115, 57, 122, 78, 103, 121, 106, 74, 68, 55, 69, 49, 114,
    77, 119, 113, 116, 54, 101, 106, 107, 85, 66, 70, 78, 118, 121, 115, 107,
    90, 89, 71, 121, 119, 104, 80, 115, 87, 76, 65, 88, 49, 67, 113, 72, 67,
    57, 112, 74, 81, 81, 107, 68, 57, 117, 89, 117, 65, 70, 76, 109, 98, 56,
    106, 53, 104, 107, 71, 49, 51, 84, 122, 120, 75, 70, 103, 105, 86, 88,
    74, 119>>

\* spsig1Zc9PLdUuqWLRFUK4nE..  (sigC1 with one bit flipped)
sigC1flip ==
    <<115, 112, 115, 105, 103, 49, 90, 99, 57, 80, 76, 100, 85, 117, 113, 87,
    76, 82, 70, 85, 75, 52, 110, 69, 74, 112, 67, 101, 115, 104, 86, 67, 104,
    103, 54, 116, 106, 119, 103, 112, 104, 50, 112, 103, 86, 87, 118, 56,
    104, 121, 69, 88, 89, 100, 68, 70, 85, 69, 66, 90, 84, 68, 100, 69, 80,
    119, 97, 51, 99, 65, 88, 68, 98, 74, 86, 55, 74, 76, 85, 97, 74, 106, 75,
    86, 118, 105, 89, 55, 90, 50, 80, 52, 88, 74, 74, 72, 49, 102, 106>>

\* spsig15oyPL6RPsCmQbjdHRD..  (spsig1, r = s = 0)
sigSpZero ==
    <<115, 112, 115, 105, 103, 49, 53, 111, 121, 80, 76, 54, 82, 80, 115, 67,
    109, 81, 98, 106, 100, 72, 82, 68, 81, 103, 66, 112, 110, 113, 102, 70,
    49, 80, 71, 67, 97, 78, 107, 57, 101, 86, 53, 107, 115, 69, 65, 66, 104,
    89, 54, 66, 86, 82, 102, 80, 120, 71, 72, 104, 114, 86, 52, 102, 67, 56,
    52, 85, 89, 71, 74, 101, 55, 103, 49, 112, 70, 105, 121, 99, 99, 83, 97,
    66, 102, 103, 57, 55, 75, 110, 66, 87, 67, 88, 89, 90, 104, 57, 99>>

\* p2sigMJWuMaj1zAfVMzdZzFn..  (p2sig, r = s = 0)
sigP2Zero ==
    <<112, 50, 115, 105, 103, 77, 74, 87, 117, 77, 97, 106, 49, 122, 65, 102,
    86, 77, 122, 100, 90, 122, 70, 110, 111, 110, 99, 67, 75, 69, 55, 102,
    97, 72, 122, 74, 55, 99, 111, 66, 54, 104, 51, 122, 105, 85, 105, 71,
    101, 90, 111, 84, 90, 85, 78, 102, 89, 83, 81, 82, 53, 116, 50, 100, 74,
    54, 99, 70, 87, 67, 118, 85, 120, 56, 67, 90, 100, 76, 82, 67, 105, 103,
    65, 85, 116, 114, 116, 50, 74, 69, 102, 82, 122, 118, 98, 68, 110, 76>>

\* sigpmeXbDrrr2FqgAhEf8YLu..  (sigA1 under the generic sig prefix)
sigGeneric ==
    <<115, 105, 103, 112, 109, 101, 88, 98, 68, 114, 114, 114, 50, 70, 113,
    103, 65, 104, 69, 102, 56, 89, 76, 117, 112, 105, 70, 50, 72, 49, 115,
    70, 69, 52, 78, 52, 105, 83, 88, 50, 118, 122, 115, 81, 89, 97, 121, 65,
    49, 54, 116, 121, 98, 70, 53, 84, 109, 72, 111, 72, 66, 56, 113, 77, 122,
    81, 68, 80, 52, 53, 98, 115, 56, 52, 55, 52, 114, 105, 71, 80, 105, 120,
    104, 52, 85, 120, 76, 74, 118, 75, 111, 104, 115, 90, 83, 89>>

\* edsigtzb7eeSm8nDHts9zNgy..  (sigA1 with its last character changed)
sigBadSum ==
    <<101, 100, 115, 105, 103, 116, 122, 98, 55, 101, 101, 83, 109, 56, 110,
    68, 72, 116, 115, 57, 122, 78, 103, 121, 106, 74, 68, 55, 69, 49, 114,
    77, 119, 113, 116, 54, 101, 106, 107, 85, 66, 70, 78, 118, 121, 115, 107,
    90, 89, 71, 121, 119, 104, 80, 115, 87, 76, 65, 88, 49, 67, 113, 115,
    110, 118, 118, 113, 65, 107, 101, 118, 88, 104, 88, 78, 117, 81, 119,
    103, 112, 86, 49, 66, 109, 65, 77, 67, 112, 118, 88, 77, 122, 82, 104,
    119, 84, 69, 118, 50>>

\* edsigtzb7e0Sm8nDHts9zNgy..  (sigA1 with a '0')
sigNotB58 ==
    <<101, 100, 115, 105, 103, 116, 122, 98, 55, 101, 48, 83, 109, 56, 110,
    68, 72, 116, 115, 57, 122, 78, 103, 121, 106, 74, 68, 55, 69, 49, 114,
    77, 119, 113, 116, 54, 101, 106, 107, 85, 66, 70, 78, 118, 121, 115, 107,
    90, 89, 71, 121, 119, 104, 80, 115, 87, 76, 65, 88, 49, 67, 113, 115,
    110, 118, 118, 113, 65, 107, 101, 118, 88, 104, 88, 78, 117, 81, 119,
    103, 112, 86, 49, 66, 109, 65, 77, 67, 112, 118, 88, 77, 122, 82, 104,
    119, 84, 69, 118, 56>>

\* 9XZLQzYdH1NdCMo3LEZfHdBR..  (edsig, 63 bytes)
sigEdShort ==
    <<57, 88, 90, 76, 81, 122, 89, 100, 72, 49, 78, 100, 67, 77, 111, 51, 76,
    69, 90, 102, 72, 100, 66, 82, 66, 86, 78, 75, 100, 85, 113, 76, 104, 88,
    55, 57, 53, 85, 77, 105, 120, 76, 97, 52, 99, 122, 105, 98, 55, 66, 82,
    69, 74, 74, 115, 81, 115, 55, 69, 98, 86, 52, 78, 85, 100, 69, 90, 68,
    66, 76, 118, 78, 49, 55, 116, 66, 87, 116, 112, 53, 115, 74, 71, 56, 72,
    99, 113, 117, 54, 76, 55, 97, 49, 75, 87, 80, 101, 100>>

(* Texts of the checksum codec for other payloads *)

\* FaNKMLkXR  (tz1 prefix, empty payload)
cdEmptyTz1 ==
    <<70, 97, 78, 75, 77, 76, 107, 88, 82>>

\* 3QJmnh  (no prefix, empty payload)
cdBare ==
    <<51, 81, 74, 109, 110, 104>>

\* 11146EAsf  (no prefix, three zero bytes)
cdZeros ==
    <<49, 49, 49, 52, 54, 69, 65, 115, 102>>

\* 11VmypLhv  (prefix 0, payload 0 255)
cdZeroPrefix ==
    <<49, 49, 86, 109, 121, 112, 76, 104, 118>>

\* SdnVPE5jz9PbGzuieppkTxRGdYqbfXDnJeYGTPrfeEqPePEc1zjvNF5njNpdS7hX3sRKn5AyoE4BDWf3aiyb8ovphJMVozX3FyBf5mdF5gFjGezU72TaDosk  (p2sig prefix, the 80 bytes 100..179)
cdLong ==
    <<83, 100, 110, 86, 80, 69, 53, 106, 122, 57, 80, 98, 71, 122, 117, 105,
    101, 112, 112, 107, 84, 120, 82, 71, 100, 89, 113, 98, 102, 88, 68, 110,
    74, 101, 89, 71, 84, 80, 114, 102, 101, 69, 113, 80, 101, 80, 69, 99, 49,
    122, 106, 118, 78, 70, 53, 110, 106, 78, 112, 100, 83, 55, 104, 88, 51,
    115, 82, 75, 110, 53, 65, 121, 111, 69, 52, 66, 68, 87, 102, 51, 97, 105,
    121, 98, 56, 111, 118, 112, 104, 74, 77, 86, 111, 122, 88, 51, 70, 121,
    66, 102, 53, 109, 100, 70, 53, 103, 70, 106, 71, 101, 122, 85, 55, 50,
    84, 97, 68, 111, 115, 107>>

(* Challenges *)

\* Sign this message to log in as admin: 123e4567-e89b-42d3-a456-426614174000
challenge1 ==
    <<83, 105, 103, 110, 32, 116, 104, 105, 115, 32, 109, 101, 115, 115, 97,
    103, 101, 32, 116, 111, 32, 108, 111, 103, 32, 105, 110, 32, 97, 115, 32,
    97, 100, 109, 105, 110, 58, 32, 49, 50, 51, 101, 52, 53, 54, 55, 45, 101,
    56, 57, 98, 45, 52, 50, 100, 51, 45, 97, 52, 53, 54, 45, 52, 50, 54, 54,
    49, 52, 49, 55, 52, 48, 48, 48>>

\* Sign this message to log in as admin: 00000000-0000-4000-8000-000000000000
challenge2 ==
    <<83, 105, 103, 110, 32, 116, 104, 105, 115, 32, 109, 101, 115, 115, 97,
    103, 101, 32, 116, 111, 32, 108, 111, 103, 32, 105, 110, 32, 97, 115, 32,
    97, 100, 109, 105, 110, 58, 32, 48, 48, 48, 48, 48, 48, 48, 48, 45, 48,
    48, 48, 48, 45, 52, 48, 48, 48, 45, 56, 48, 48, 48, 45, 48, 48, 48, 48,
    48, 48, 48, 48, 48, 48, 48, 48>>

\* bs58: text |-> bytes, for every text above that is base-58

Bs58Table == {
    <<pkA,
      <<13, 15, 37, 217, 3, 161, 7, 191, 243, 206, 16, 190, 29, 112, 221, 24,
      231, 75, 192, 153, 103, 228, 214, 48, 155, 165, 13, 95, 29, 220, 134,
      100, 18, 85, 49, 184, 8, 132, 34, 150>>>>,
    <<pkB,
      <<13, 15, 37, 217, 121, 181, 86, 46, 143, 230, 84, 249, 64, 120, 177,
      18, 232, 169, 139, 167, 144, 31, 133, 58, 230, 149, 190, 215, 224, 227,
      145, 11, 173, 4, 150, 100, 120, 190, 84, 245>>>>,
    <<pkC,
      <<3, 254, 226, 86, 3, 42, 91, 188, 176, 238, 222, 82, 142, 106, 190,
      95, 46, 197, 10, 215, 136, 126, 181, 103, 122, 243, 131, 164, 96, 176,
      94, 226, 59, 248, 146, 223, 229, 91, 134, 99, 80>>>>,
    <<pkD,
      <<3, 178, 139, 127, 2, 241, 197, 23, 124, 115, 107, 151, 220, 84, 107,
      143, 229, 202, 168, 31, 124, 232, 192, 121, 110, 21, 17, 126, 153, 26,
      170, 167, 130, 120, 251, 120, 72, 76, 60, 146, 218>>>>,
    <<pkEdNoPoint,
      <<13, 15, 37, 217, 2, 0, 0, 0, 0, 0, 0, 0, 0, 0, 0, 0, 0, 0, 0, 0, 0,
      0, 0, 0, 0, 0, 0, 0, 0, 0, 0, 0, 0, 0, 0, 0, 151, 127, 166, 146>>>>,
    <<pkSpOff,
      <<3, 254, 226, 86, 2, 0, 0, 0, 0, 0, 0, 0, 0, 0, 0, 0, 0, 0, 0, 0, 0,
      0, 0, 0, 0, 0, 0, 0, 0, 0, 0, 0, 0, 0, 0, 0, 5, 136, 129, 131, 249>>>>,
    <<pkP2Off,
      <<3, 178, 139, 127, 2, 0, 0, 0, 0, 0, 0, 0, 0, 0, 0, 0, 0, 0, 0, 0, 0,
      0, 0, 0, 0, 0, 0, 0, 0, 0, 0, 0, 0, 0, 0, 0, 1, 28, 142, 137, 110>>>>,
    <<pkSpBadTag,
      <<3, 254, 226, 86, 7, 42, 91, 188, 176, 238, 222, 82, 142, 106, 190,
      95, 46, 197, 10, 215, 136, 126, 181, 103, 122, 243, 131, 164, 96, 176,
      94, 226, 59, 248, 146, 223, 229, 33, 151, 30, 3>>>>,
    <<pkP2BadTag,
      <<3, 178, 139, 127, 7, 241, 197, 23, 124, 115, 107, 151, 220, 84, 107,
      143, 229, 202, 168, 31, 124, 232, 192, 121, 110, 21, 17, 126, 153, 26,
      170, 167, 130, 120, 251, 120, 72, 84, 60, 239, 251>>>>,
    <<pkBadSum,
      <<13, 15, 37, 217, 3, 161, 7, 191, 243, 206, 16, 190, 29, 112, 221, 24,
      231, 75, 192, 153, 103, 228, 214, 48, 155, 165, 13, 95, 29, 220, 134,
      100, 18, 85, 49, 184, 8, 132, 34, 141>>>>,
    <<pkCut,
      <<254, 105, 196, 106, 53, 11, 62, 101, 245, 128, 209, 72, 142, 134, 82,
      221, 140, 157, 29, 162, 60, 163, 161, 18, 216, 130, 21, 61, 161, 95,
      39, 147, 207, 176, 252, 167, 117, 130>>>>,
    <<pkShort,
      <<112, 11, 169>>>>,
    <<tzA,
      <<6, 161, 159, 240, 165, 148, 210, 151, 141, 168, 128, 63, 105, 99, 37,
      234, 10, 170, 80, 69, 207, 46, 148, 29, 195, 76, 18>>>>,
    <<tzB,
      <<6, 161, 159, 24, 127, 193, 125, 119, 236, 14, 60, 110, 193, 207, 99,
      116, 176, 77, 149, 148, 201, 101, 154, 0, 115, 157, 187>>>>,
    <<tzC,
      <<6, 161, 161, 212, 33, 60, 3, 198, 26, 252, 249, 85, 25, 140, 185, 66,
      94, 122, 140, 90, 63, 152, 128, 71, 202, 145, 212>>>>,
    <<tzD,
      <<6, 161, 164, 69, 196, 67, 5, 146, 249, 177, 97, 148, 203, 218, 29,
      218, 1, 11, 119, 251, 142, 52, 22, 1, 33, 93, 171>>>>,
    <<tzEdNoPoint,
      <<6, 161, 159, 98, 255, 55, 96, 35, 248, 67, 237, 196, 179, 164, 130,
      47, 17, 20, 125, 46, 255, 203, 102, 56, 226, 100, 94>>>>,
    <<tzSpOff,
      <<6, 161, 161, 160, 39, 221, 129, 134, 12, 208, 246, 32, 16, 6, 119,
      142, 54, 209, 103, 162, 49, 60, 65, 26, 246, 254, 130>>>>,
    <<tzP2Off,
      <<6, 161, 164, 178, 99, 220, 204, 241, 41, 66, 155, 166, 170, 25, 183,
      247, 96, 239, 34, 155, 17, 125, 158, 74, 231, 160, 86>>>>,
    <<sigA1,
      <<9, 245, 205, 134, 18, 204, 181, 220, 23, 145, 164, 98, 104, 55, 141,
      13, 28, 43, 86, 46, 213, 31, 231, 162, 162, 60, 98, 78, 37, 73, 62, 92,
      141, 196, 13, 197, 103, 225, 27, 183, 51, 238, 80, 134, 157, 111, 142,
      190, 209, 15, 24, 167, 217, 209, 219, 222, 80, 193, 36, 136, 187, 156,
      41, 92, 254, 167, 5, 93, 10, 138, 31, 41, 205>>>>,
    <<sigA2,
      <<9, 245, 205, 134, 18, 116, 33, 69, 108, 136, 207, 1, 54, 108, 211,
      48, 33, 235, 94, 65, 164, 39, 96, 67, 221, 88, 227, 8, 95, 150, 77,
      201, 226, 214, 243, 204, 50, 2, 47, 96, 28, 104, 138, 77, 63, 144, 201,
      90, 14, 0, 72, 222, 60, 25, 232, 157, 33, 152, 196, 35, 247, 173, 81,
      100, 93, 179, 44, 205, 14, 16, 177, 130, 181>>>>,
    <<sigB1,
      <<9, 245, 205, 134, 18, 210, 216, 134, 79, 58, 112, 246, 20, 58, 27, 9,
      19, 235, 3, 31, 4, 208, 125, 136, 248, 82, 37, 214, 180, 17, 34, 249,
      139, 242, 236, 209, 47, 37, 11, 80, 240, 193, 49, 75, 151, 118, 36,
      129, 208, 188, 141, 233, 148, 158, 234, 152, 93, 57, 77, 112, 115, 126,
      151, 225, 150, 214, 246, 3, 11, 60, 157, 113, 217>>>>,
    <<sigC1,
      <<13, 115, 101, 19, 63, 212, 118, 68, 83, 154, 206, 195, 218, 94, 62,
      207, 95, 232, 134, 60, 98, 138, 156, 151, 232, 183, 30, 158, 169, 22,
      122, 111, 79, 131, 192, 60, 50, 120, 82, 119, 151, 50, 44, 46, 2, 250,
      162, 4, 18, 220, 225, 164, 102, 130, 92, 9, 139, 65, 159, 36, 161, 5,
      20, 19, 8, 52, 225, 34, 254, 7, 241, 176, 157>>>>,
    <<sigD1,
      <<54, 240, 44, 52, 16, 164, 144, 82, 57, 85, 203, 194, 194, 211, 69,
      36, 88, 252, 223, 151, 196, 115, 52, 105, 241, 135, 144, 95, 92, 182,
      115, 71, 244, 36, 78, 184, 58, 172, 157, 233, 194, 97, 105, 234, 197,
      195, 44, 3, 48, 84, 17, 23, 242, 156, 92, 89, 32, 178, 68, 142, 45,
      103, 210, 175, 206, 61, 59, 121, 233, 104, 103, 167>>>>,
    <<sigA1flip,
      <<9, 245, 205, 134, 18, 204, 181, 220, 23, 145, 164, 98, 104, 55, 141,
      13, 28, 43, 86, 46, 213, 31, 231, 162, 162, 60, 98, 78, 37, 73, 62, 92,
      141, 196, 13, 197, 103, 225, 27, 183, 51, 238, 80, 134, 157, 110, 142,
      190, 209, 15, 24, 167, 217, 209, 219, 222, 80, 193, 36, 136, 187, 156,
      41, 92, 254, 167, 5, 93, 10, 144, 113, 187, 24>>>>,
    <<sigC1flip,
      <<13, 115, 101, 19, 63, 212, 118, 68, 83, 154, 206, 195, 218, 94, 62,
      207, 95, 232, 134, 60, 98, 138, 156, 151, 232, 183, 30, 158, 169, 22,
      122, 111, 79, 131, 192, 60, 50, 120, 82, 119, 151, 50, 44, 46, 2, 251,
      162, 4, 18, 220, 225, 164, 102, 130, 92, 9, 139, 65, 159, 36, 161, 5,
      20, 19, 8, 52, 225, 34, 254, 55, 58, 195, 246>>>>,
    <<sigSpZero,
      <<13, 115, 101, 19, 63, 0, 0, 0, 0, 0, 0, 0, 0, 0, 0, 0, 0, 0, 0, 0, 0,
      0, 0, 0, 0, 0, 0, 0, 0, 0, 0, 0, 0, 0, 0, 0, 0, 0, 0, 0, 0, 0, 0, 0, 0,
      0, 0, 0, 0, 0, 0, 0, 0, 0, 0, 0, 0, 0, 0, 0, 0, 0, 0, 0, 0, 0, 0, 0, 0,
      71, 107, 27, 131>>>>,
    <<sigP2Zero,
      <<54, 240, 44, 52, 0, 0, 0, 0, 0, 0, 0, 0, 0, 0, 0, 0, 0, 0, 0, 0, 0,
      0, 0, 0, 0, 0, 0, 0, 0, 0, 0, 0, 0, 0, 0, 0, 0, 0, 0, 0, 0, 0, 0, 0, 0,
      0, 0, 0, 0, 0, 0, 0, 0, 0, 0, 0, 0, 0, 0, 0, 0, 0, 0, 0, 0, 0, 0, 0,
      181, 81, 158, 53>>>>,
    <<sigGeneric,
      <<4, 130, 43, 204, 181, 220, 23, 145, 164, 98, 104, 55, 141, 13, 28,
      43, 86, 46, 213, 31, 231, 162, 162, 60, 98, 78, 37, 73, 62, 92, 141,
      196, 13, 197, 103, 225, 27, 183, 51, 238, 80, 134, 157, 111, 142, 190,
      209, 15, 24, 167, 217, 209, 219, 222, 80, 193, 36, 136, 187, 156, 41,
      92, 254, 167, 5, 93, 10, 155, 118, 211, 89>>>>,
    <<sigBadSum,
      <<9, 245, 205, 134, 18, 204, 181, 220, 23, 145, 164, 98, 104, 55, 141,
      13, 28, 43, 86, 46, 213, 31, 231, 162, 162, 60, 98, 78, 37, 73, 62, 92,
      141, 196, 13, 197, 103, 225, 27, 183, 51, 238, 80, 134, 157, 111, 142,
      190, 209, 15, 24, 167, 217, 209, 219, 222, 80, 193, 36, 136, 187, 156,
      41, 92, 254, 167, 5, 93, 10, 138, 31, 41, 199>>>>,
    <<sigEdShort,
      <<9, 245, 205, 134, 18, 204, 181, 220, 23, 145, 164, 98, 104, 55, 141,
      13, 28, 43, 86, 46, 213, 31, 231, 162, 162, 60, 98, 78, 37, 73, 62, 92,
      141, 196, 13, 197, 103, 225, 27, 183, 51, 238, 80, 134, 157, 111, 142,
      190, 209, 15, 24, 167, 217, 209, 219, 222, 80, 193, 36, 136, 187, 156,
      41, 92, 254, 167, 5, 93, 140, 219, 45, 134>>>>,
    <<cdEmptyTz1,
      <<6, 161, 159, 237, 6, 3, 40>>>>,
    <<cdBare,
      <<93, 246, 224, 226>>>>,
    <<cdZeros,
      <<0, 0, 0, 120, 228, 55, 246>>>>,
    <<cdZeroPrefix,
      <<0, 0, 255, 13, 172, 50, 73>>>>,
    <<cdLong,
      <<54, 240, 44, 52, 100, 101, 102, 103, 104, 105, 106, 107, 108, 109,
      110, 111, 112, 113, 114, 115, 116, 117, 118, 119, 120, 121, 122, 123,
      124, 125, 126, 127, 128, 129, 130, 131, 132, 133, 134, 135, 136, 137,
      138, 139, 140, 141, 142, 143, 144, 145, 146, 147, 148, 149, 150, 151,
      152, 153, 154, 155, 156, 157, 158, 159, 160, 161, 162, 163, 164, 165,
      166, 167, 168, 169, 170, 171, 172, 173, 174, 175, 176, 177, 178, 179,
      194, 241, 89, 103>>>> }

\* sha2::Sha256: data |-> digest, for the checksummed data above and their digests

Sha256Table == {
    <<<<13, 15, 37, 217, 3, 161, 7, 191, 243, 206, 16, 190, 29, 112, 221, 24,
      231, 75, 192, 153, 103, 228, 214, 48, 155, 165, 13, 95, 29, 220, 134,
      100, 18, 85, 49, 184>>,
      <<49, 167, 231, 234, 142, 11, 141, 255, 118, 170, 26, 205, 130, 228,
      181, 59, 58, 118, 165, 153, 125, 109, 46, 247, 240, 160, 5, 53, 206,
      23, 44, 217>>>>,
    <<<<13, 15, 37, 217, 121, 181, 86, 46, 143, 230, 84, 249, 64, 120, 177,
      18, 232, 169, 139, 167, 144, 31, 133, 58, 230, 149, 190, 215, 224, 227,
      145, 11, 173, 4, 150, 100>>,
      <<24, 52, 79, 231, 251, 208, 10, 239, 143, 164, 32, 163, 116, 222, 254,
      208, 123, 140, 229, 46, 100, 163, 31, 109, 60, 211, 221, 242, 228, 134,
      221, 156>>>>,
    <<<<3, 254, 226, 86, 3, 42, 91, 188, 176, 238, 222, 82, 142, 106, 190,
      95, 46, 197, 10, 215, 136, 126, 181, 103, 122, 243, 131, 164, 96, 176,
      94, 226, 59, 248, 146, 223, 229>>,
      <<134, 192, 203, 111, 214, 212, 117, 136, 243, 181, 93, 105, 87, 193,
      31, 28, 194, 71, 125, 166, 170, 162, 202, 226, 44, 116, 77, 40, 179,
      22, 39, 239>>>>,
    <<<<3, 178, 139, 127, 2, 241, 197, 23, 124, 115, 107, 151, 220, 84, 107,
      143, 229, 202, 168, 31, 124, 232, 192, 121, 110, 21, 17, 126, 153, 26,
      170, 167, 130, 120, 251, 120, 72>>,
      <<110, 248, 151, 255, 157, 223, 144, 242, 45, 200, 5, 53, 148, 163,
      152, 103, 59, 62, 221, 199, 83, 65, 152, 103, 228, 255, 59, 168, 224,
      129, 217, 87>>>>,
    <<<<13, 15, 37, 217, 2, 0, 0, 0, 0, 0, 0, 0, 0, 0, 0, 0, 0, 0, 0, 0, 0,
      0, 0, 0, 0, 0, 0, 0, 0, 0, 0, 0, 0, 0, 0, 0>>,
      <<15, 38, 101, 227, 167, 251, 107, 249, 201, 29, 236, 42, 245, 109,
      248, 233, 255, 167, 46, 108, 122, 65, 125, 91, 123, 252, 113, 166, 25,
      248, 85, 173>>>>,
    <<<<3, 254, 226, 86, 2, 0, 0, 0, 0, 0, 0, 0, 0, 0, 0, 0, 0, 0, 0, 0, 0,
      0, 0, 0, 0, 0, 0, 0, 0, 0, 0, 0, 0, 0, 0, 0, 5>>,
      <<244, 221, 164, 41, 215, 92, 173, 169, 45, 186, 206, 41, 172, 70, 57,
      66, 110, 94, 203, 183, 42, 205, 216, 133, 95, 19, 32, 234, 241, 233,
      213, 50>>>>,
    <<<<3, 178, 139, 127, 2, 0, 0, 0, 0, 0, 0, 0, 0, 0, 0, 0, 0, 0, 0, 0, 0,
      0, 0, 0, 0, 0, 0, 0, 0, 0, 0, 0, 0, 0, 0, 0, 1>>,
      <<86, 203, 77, 193, 96, 29, 176, 227, 228, 176, 78, 158, 163, 16, 2,
      65, 76, 232, 70, 162, 31, 139, 205, 133, 175, 235, 245, 11, 15, 221,
      131, 44>>>>,
    <<<<3, 254, 226, 86, 7, 42, 91, 188, 176, 238, 222, 82, 142, 106, 190,
      95, 46, 197, 10, 215, 136, 126, 181, 103, 122, 243, 131, 164, 96, 176,
      94, 226, 59, 248, 146, 223, 229>>,
      <<241, 83, 240, 210, 174, 160, 208, 28, 9, 116, 217, 188, 21, 151, 137,
      81, 205, 202, 138, 89, 37, 120, 208, 213, 230, 126, 8, 41, 198, 26,
      179, 228>>>>,
    <<<<3, 178, 139, 127, 7, 241, 197, 23, 124, 115, 107, 151, 220, 84, 107,
      143, 229, 202, 168, 31, 124, 232, 192, 121, 110, 21, 17, 126, 153, 26,
      170, 167, 130, 120, 251, 120, 72>>,
      <<134, 184, 64, 206, 68, 230, 5, 62, 255, 76, 2, 114, 242, 120, 233,
      40, 9, 246, 182, 116, 59, 255, 81, 194, 29, 41, 19, 84, 225, 12, 153,
      26>>>>,
    <<<<254, 105, 196, 106, 53, 11, 62, 101, 245, 128, 209, 72, 142, 134, 82,
      221, 140, 157, 29, 162, 60, 163, 161, 18, 216, 130, 21, 61, 161, 95,
      39, 147, 207, 176>>,
      <<118, 55, 147, 191, 204, 103, 50, 109, 77, 160, 57, 177, 30, 222, 221,
      7, 12, 185, 202, 191, 189, 200, 43, 0, 245, 153, 157, 198, 247, 132,
      220, 205>>>>,
    <<<<6, 161, 159, 240, 165, 148, 210, 151, 141, 168, 128, 63, 105, 99, 37,
      234, 10, 170, 80, 69, 207, 46, 148>>,
      <<32, 141, 84, 11, 109, 232, 87, 210, 159, 123, 152, 68, 130, 41, 191,
      47, 217, 252, 202, 220, 4, 213, 11, 60, 197, 225, 33, 90, 79, 39, 150,
      155>>>>,
    <<<<6, 161, 159, 24, 127, 193, 125, 119, 236, 14, 60, 110, 193, 207, 99,
      116, 176, 77, 149, 148, 201, 101, 154>>,
      <<202, 83, 210, 71, 171, 80, 3, 146, 188, 228, 73, 79, 62, 58, 175,
      107, 125, 158, 67, 34, 65, 24, 5, 152, 165, 56, 1, 21, 252, 44, 251,
      118>>>>,
    <<<<6, 161, 161, 212, 33, 60, 3, 198, 26, 252, 249, 85, 25, 140, 185, 66,
      94, 122, 140, 90, 63, 152, 128>>,
      <<8, 118, 101, 243, 52, 49, 97, 28, 200, 189, 219, 38, 247, 243, 238,
      61, 170, 147, 246, 57, 131, 32, 30, 164, 218, 25, 142, 106, 192, 155,
      34, 233>>>>,
    <<<<6, 161, 164, 69, 196, 67, 5, 146, 249, 177, 97, 148, 203, 218, 29,
      218, 1, 11, 119, 251, 142, 52, 22>>,
      <<214, 146, 249, 187, 32, 8, 39, 178, 30, 45, 208, 196, 198, 75, 63,
      93, 201, 232, 141, 222, 99, 0, 134, 72, 103, 16, 14, 136, 44, 89, 45,
      64>>>>,
    <<<<6, 161, 159, 98, 255, 55, 96, 35, 248, 67, 237, 196, 179, 164, 130,
      47, 17, 20, 125, 46, 255, 203, 102>>,
      <<198, 65, 254, 130, 78, 119, 57, 164, 36, 53, 205, 206, 229, 252, 165,
      150, 158, 114, 190, 180, 173, 234, 128, 90, 227, 79, 44, 148, 229, 65,
      24, 56>>>>,
    <<<<6, 161, 161, 160, 39, 221, 129, 134, 12, 208, 246, 32, 16, 6, 119,
      142, 54, 209, 103, 162, 49, 60, 65>>,
      <<254, 55, 116, 171, 167, 141, 118, 124, 217, 143, 30, 10, 124, 35,
      235, 206, 51, 108, 165, 108, 101, 85, 122, 68, 172, 111, 4, 98, 164,
      62, 131, 6>>>>,
    <<<<6, 161, 164, 178, 99, 220, 204, 241, 41, 66, 155, 166, 170, 25, 183,
      247, 96, 239, 34, 155, 17, 125, 158>>,
      <<58, 239, 10, 252, 143, 93, 79, 3, 162, 208, 140, 240, 225, 214, 94,
      130, 132, 234, 213, 241, 59, 151, 88, 158, 40, 65, 13, 240, 83, 229,
      210, 25>>>>,
    <<<<9, 245, 205, 134, 18, 204, 181, 220, 23, 145, 164, 98, 104, 55, 141,
      13, 28, 43, 86, 46, 213, 31, 231, 162, 162, 60, 98, 78, 37, 73, 62, 92,
      141, 196, 13, 197, 103, 225, 27, 183, 51, 238, 80, 134, 157, 111, 142,
      190, 209, 15, 24, 167, 217, 209, 219, 222, 80, 193, 36, 136, 187, 156,
      41, 92, 254, 167, 5, 93, 10>>,
      <<98, 114, 34, 35, 113, 254, 253, 147, 205, 114, 253, 128, 35, 217, 54,
      2, 169, 43, 32, 159, 137, 148, 28, 105, 34, 75, 175, 149, 50, 160, 124,
      205>>>>,
    <<<<9, 245, 205, 134, 18, 116, 33, 69, 108, 136, 207, 1, 54, 108, 211,
      48, 33, 235, 94, 65, 164, 39, 96, 67, 221, 88, 227, 8, 95, 150, 77,
      201, 226, 214, 243, 204, 50, 2, 47, 96, 28, 104, 138, 77, 63, 144, 201,
      90, 14, 0, 72, 222, 60, 25, 232, 157, 33, 152, 196, 35, 247, 173, 81,
      100, 93, 179, 44, 205, 14>>,
      <<210, 116, 108, 18, 127, 50, 123, 142, 2, 92, 182, 224, 252, 147, 39,
      70, 175, 232, 105, 92, 209, 182, 91, 64, 130, 165, 52, 10, 162, 246,
      16, 134>>>>,
    <<<<9, 245, 205, 134, 18, 210, 216, 134, 79, 58, 112, 246, 20, 58, 27, 9,
      19, 235, 3, 31, 4, 208, 125, 136, 248, 82, 37, 214, 180, 17, 34, 249,
      139, 242, 236, 209, 47, 37, 11, 80, 240, 193, 49, 75, 151, 118, 36,
      129, 208, 188, 141, 233, 148, 158, 234, 152, 93, 57, 77, 112, 115, 126,
      151, 225, 150, 214, 246, 3, 11>>,
      <<190, 68, 108, 197, 38, 30, 61, 176, 126, 10, 139, 242, 184, 2, 151,
      191, 47, 85, 15, 253, 47, 50, 98, 7, 221, 13, 111, 203, 183, 105, 49,
      60>>>>,
    <<<<13, 115, 101, 19, 63, 212, 118, 68, 83, 154, 206, 195, 218, 94, 62,
      207, 95, 232, 134, 60, 98, 138, 156, 151, 232, 183, 30, 158, 169, 22,
      122, 111, 79, 131, 192, 60, 50, 120, 82, 119, 151, 50, 44, 46, 2, 250,
      162, 4, 18, 220, 225, 164, 102, 130, 92, 9, 139, 65, 159, 36, 161, 5,
      20, 19, 8, 52, 225, 34, 254>>,
      <<160, 180, 24, 218, 58, 169, 101, 8, 235, 89, 88, 139, 93, 116, 238,
      159, 44, 173, 98, 177, 223, 101, 25, 33, 210, 185, 161, 86, 10, 189,
      125, 218>>>>,
    <<<<54, 240, 44, 52, 16, 164, 144, 82, 57, 85, 203, 194, 194, 211, 69,
      36, 88, 252, 223, 151, 196, 115, 52, 105, 241, 135, 144, 95, 92, 182,
      115, 71, 244, 36, 78, 184, 58, 172, 157, 233, 194, 97, 105, 234, 197,
      195, 44, 3, 48, 84, 17, 23, 242, 156, 92, 89, 32, 178, 68, 142, 45,
      103, 210, 175, 206, 61, 59, 121>>,
      <<1, 244, 89, 32, 134, 60, 109, 78, 34, 32, 74, 153, 247, 68, 161, 32,
      110, 207, 99, 46, 86, 253, 124, 176, 218, 84, 56, 72, 175, 206, 218,
      113>>>>,
    <<<<9, 245, 205, 134, 18, 204, 181, 220, 23, 145, 164, 98, 104, 55, 141,
      13, 28, 43, 86, 46, 213, 31, 231, 162, 162, 60, 98, 78, 37, 73, 62, 92,
      141, 196, 13, 197, 103, 225, 27, 183, 51, 238, 80, 134, 157, 110, 142,
      190, 209, 15, 24, 167, 217, 209, 219, 222, 80, 193, 36, 136, 187, 156,
      41, 92, 254, 167, 5, 93, 10>>,
      <<207, 122, 183, 91, 203, 11, 6, 25, 248, 0, 130, 75, 179, 238, 252,
      193, 78, 50, 189, 102, 153, 131, 149, 3, 41, 113, 156, 248, 232, 79,
      228, 155>>>>,
    <<<<13, 115, 101, 19, 63, 212, 118, 68, 83, 154, 206, 195, 218, 94, 62,
      207, 95, 232, 134, 60, 98, 138, 156, 151, 232, 183, 30, 158, 169, 22,
      122, 111, 79, 131, 192, 60, 50, 120, 82, 119, 151, 50, 44, 46, 2, 251,
      162, 4, 18, 220, 225, 164, 102, 130, 92, 9, 139, 65, 159, 36, 161, 5,
      20, 19, 8, 52, 225, 34, 254>>,
      <<243, 117, 250, 96, 210, 239, 197, 138, 210, 175, 82, 232, 158, 45,
      128, 35, 54, 159, 83, 16, 111, 162, 227, 43, 99, 189, 29, 121, 92, 109,
      118, 40>>>>,
    <<<<13, 115, 101, 19, 63, 0, 0, 0, 0, 0, 0, 0, 0, 0, 0, 0, 0, 0, 0, 0, 0,
      0, 0, 0, 0, 0, 0, 0, 0, 0, 0, 0, 0, 0, 0, 0, 0, 0, 0, 0, 0, 0, 0, 0, 0,
      0, 0, 0, 0, 0, 0, 0, 0, 0, 0, 0, 0, 0, 0, 0, 0, 0, 0, 0, 0, 0, 0, 0,
      0>>,
      <<252, 56, 244, 217, 76, 60, 73, 120, 176, 144, 222, 146, 72, 200, 233,
      134, 238, 164, 24, 156, 229, 43, 125, 89, 109, 147, 107, 121, 131, 129,
      187, 136>>>>,
    <<<<54, 240, 44, 52, 0, 0, 0, 0, 0, 0, 0, 0, 0, 0, 0, 0, 0, 0, 0, 0, 0,
      0, 0, 0, 0, 0, 0, 0, 0, 0, 0, 0, 0, 0, 0, 0, 0, 0, 0, 0, 0, 0, 0, 0, 0,
      0, 0, 0, 0, 0, 0, 0, 0, 0, 0, 0, 0, 0, 0, 0, 0, 0, 0, 0, 0, 0, 0, 0>>,
      <<206, 188, 235, 27, 128, 36, 84, 241, 50, 110, 36, 13, 205, 86, 100,
      215, 199, 217, 10, 55, 240, 247, 66, 94, 73, 223, 239, 4, 120, 130, 1,
      224>>>>,
    <<<<4, 130, 43, 204, 181, 220, 23, 145, 164, 98, 104, 55, 141, 13, 28,
      43, 86, 46, 213, 31, 231, 162, 162, 60, 98, 78, 37, 73, 62, 92, 141,
      196, 13, 197, 103, 225, 27, 183, 51, 238, 80, 134, 157, 111, 142, 190,
      209, 15, 24, 167, 217, 209, 219, 222, 80, 193, 36, 136, 187, 156, 41,
      92, 254, 167, 5, 93, 10>>,
      <<0, 216, 54, 113, 210, 212, 230, 92, 49, 25, 161, 140, 215, 233, 21,
      178, 89, 209, 216, 72, 71, 33, 148, 221, 202, 155, 9, 165, 227, 139,
      88, 252>>>>,
    <<<<9, 245, 205, 134, 18, 204, 181, 220, 23, 145, 164, 98, 104, 55, 141,
      13, 28, 43, 86, 46, 213, 31, 231, 162, 162, 60, 98, 78, 37, 73, 62, 92,
      141, 196, 13, 197, 103, 225, 27, 183, 51, 238, 80, 134, 157, 111, 142,
      190, 209, 15, 24, 167, 217, 209, 219, 222, 80, 193, 36, 136, 187, 156,
      41, 92, 254, 167, 5, 93>>,
      <<232, 173, 128, 98, 114, 84, 232, 237, 72, 188, 141, 36, 250, 51, 196,
      125, 96, 149, 52, 205, 78, 123, 157, 152, 117, 30, 90, 145, 136, 147,
      170, 182>>>>,
    <<<<6, 161, 159>>,
      <<6, 43, 219, 58, 254, 241, 220, 129, 193, 186, 200, 41, 253, 145, 186,
      60, 105, 72, 212, 11, 103, 97, 11, 66, 176, 217, 216, 197, 215, 60,
      205, 115>>>>,
    <<<<>>,
      <<227, 176, 196, 66, 152, 252, 28, 20, 154, 251, 244, 200, 153, 111,
      185, 36, 39, 174, 65, 228, 100, 155, 147, 76, 164, 149, 153, 27, 120,
      82, 184, 85>>>>,
    <<<<0, 0, 0>>,
      <<112, 158, 128, 200, 132, 135, 162, 65, 30, 30, 228, 223, 185, 242,
      42, 134, 20, 146, 210, 12, 71, 101, 21, 12, 12, 121, 74, 189, 112, 248,
      20, 124>>>>,
    <<<<0, 0, 255>>,
      <<174, 151, 77, 74, 116, 194, 55, 29, 140, 254, 132, 43, 122, 164, 246,
      105, 141, 232, 87, 5, 38, 238, 179, 219, 25, 65, 176, 183, 35, 17, 212,
      112>>>>,
    <<<<54, 240, 44, 52, 100, 101, 102, 103, 104, 105, 106, 107, 108, 109,
      110, 111, 112, 113, 114, 115, 116, 117, 118, 119, 120, 121, 122, 123,
      124, 125, 126, 127, 128, 129, 130, 131, 132, 133, 134, 135, 136, 137,
      138, 139, 140, 141, 142, 143, 144, 145, 146, 147, 148, 149, 150, 151,
      152, 153, 154, 155, 156, 157, 158, 159, 160, 161, 162, 163, 164, 165,
      166, 167, 168, 169, 170, 171, 172, 173, 174, 175, 176, 177, 178, 179>>,
      <<225, 175, 69, 121, 96, 224, 108, 56, 251, 73, 14, 117, 229, 83, 106,
      168, 37, 206, 154, 53, 95, 207, 237, 232, 107, 39, 170, 105, 65, 0, 42,
      68>>>>,
    <<<<49, 167, 231, 234, 142, 11, 141, 255, 118, 170, 26, 205, 130, 228,
      181, 59, 58, 118, 165, 153, 125, 109, 46, 247, 240, 160, 5, 53, 206,
      23, 44, 217>>,
      <<8, 132, 34, 150, 1, 211, 45, 239, 181, 93, 72, 152, 87, 172, 19, 122,
      128, 81, 19, 84, 187, 51, 114, 219, 37, 113, 46, 233, 73, 140, 211,
      211>>>>,
    <<<<24, 52, 79, 231, 251, 208, 10, 239, 143, 164, 32, 163, 116, 222, 254,
      208, 123, 140, 229, 46, 100, 163, 31, 109, 60, 211, 221, 242, 228, 134,
      221, 156>>,
      <<120, 190, 84, 245, 223, 108, 61, 185, 42, 131, 21, 203, 60, 242, 203,
      67, 184, 246, 126, 222, 232, 135, 185, 66, 107, 113, 60, 246, 126, 35,
      150, 58>>>>,
    <<<<134, 192, 203, 111, 214, 212, 117, 136, 243, 181, 93, 105, 87, 193,
      31, 28, 194, 71, 125, 166, 170, 162, 202, 226, 44, 116, 77, 40, 179,
      22, 39, 239>>,
      <<91, 134, 99, 80, 152, 45, 254, 190, 138, 128, 16, 159, 36, 186, 247,
      159, 113, 94, 175, 200, 25, 106, 49, 103, 187, 89, 59, 106, 248, 138,
      79, 23>>>>,
    <<<<110, 248, 151, 255, 157, 223, 144, 242, 45, 200, 5, 53, 148, 163,
      152, 103, 59, 62, 221, 199, 83, 65, 152, 103, 228, 255, 59, 168, 224,
      129, 217, 87>>,
      <<76, 60, 146, 218, 157, 200, 82, 157, 234, 8, 201, 155, 9, 0, 208,
      100, 244, 130, 55, 129, 165, 139, 96, 87, 39, 251, 208, 118, 101, 95,
      81, 254>>>>,
    <<<<15, 38, 101, 227, 167, 251, 107, 249, 201, 29, 236, 42, 245, 109,
      248, 233, 255, 167, 46, 108, 122, 65, 125, 91, 123, 252, 113, 166, 25,
      248, 85, 173>>,
      <<151, 127, 166, 146, 120, 120, 42, 182, 83, 43, 144, 192, 193, 217,
      63, 44, 225, 17, 148, 135, 182, 118, 247, 171, 157, 62, 63, 169, 214,
      108, 196, 63>>>>,
    <<<<244, 221, 164, 41, 215, 92, 173, 169, 45, 186, 206, 41, 172, 70, 57,
      66, 110, 94, 203, 183, 42, 205, 216, 133, 95, 19, 32, 234, 241, 233,
      213, 50>>,
      <<136, 129, 131, 249, 227, 7, 242, 142, 215, 185, 251, 90, 72, 160, 30,
      238, 118, 65, 85, 236, 204, 162, 40, 68, 141, 119, 122, 120, 26, 1, 70,
      87>>>>,
    <<<<86, 203, 77, 193, 96, 29, 176, 227, 228, 176, 78, 158, 163, 16, 2,
      65, 76, 232, 70, 162, 31, 139, 205, 133, 175, 235, 245, 11, 15, 221,
      131, 44>>,
      <<28, 142, 137, 110, 44, 221, 169, 107, 194, 141, 48, 183, 180, 182,
      154, 61, 38, 31, 253, 24, 141, 172, 104, 251, 124, 44, 93, 92, 23, 94,
      161, 27>>>>,
    <<<<241, 83, 240, 210, 174, 160, 208, 28, 9, 116, 217, 188, 21, 151, 137,
      81, 205, 202, 138, 89, 37, 120, 208, 213, 230, 126, 8, 41, 198, 26,
      179, 228>>,
      <<33, 151, 30, 3, 209, 176, 182, 176, 9, 235, 108, 138, 226, 225, 99,
      32, 102, 214, 91, 145, 123, 244, 68, 151, 75, 222, 112, 92, 244, 9,
      193, 84>>>>,
    <<<<134, 184, 64, 206, 68, 230, 5, 62, 255, 76, 2, 114, 242, 120, 233,
      40, 9, 246, 182, 116, 59, 255, 81, 194, 29, 41, 19, 84, 225, 12, 153,
      26>>,
      <<84, 60, 239, 251, 45, 74, 178, 196, 43, 111, 157, 243, 255, 255, 114,
      223, 151, 232, 12, 188, 151, 213, 189, 114, 16, 8, 91, 90, 153, 35,
      167, 156>>>>,
    <<<<118, 55, 147, 191, 204, 103, 50, 109, 77, 160, 57, 177, 30, 222, 221,
      7, 12, 185, 202, 191, 189, 200, 43, 0, 245, 153, 157, 198, 247, 132,
      220, 205>>,
      <<109, 177, 204, 255, 158, 214, 152, 217, 237, 95, 92, 2, 200, 151, 42,
      252, 244, 109, 227, 41, 67, 113, 57, 170, 113, 39, 9, 149, 55, 25, 22,
      123>>>>,
    <<<<32, 141, 84, 11, 109, 232, 87, 210, 159, 123, 152, 68, 130, 41, 191,
      47, 217, 252, 202, 220, 4, 213, 11, 60, 197, 225, 33, 90, 79, 39, 150,
      155>>,
      <<29, 195, 76, 18, 113, 4, 89, 118, 21, 164, 206, 131, 49, 189, 54, 17,
      87, 155, 234, 106, 131, 195, 9, 255, 101, 151, 90, 19, 129, 137, 32,
      216>>>>,
    <<<<202, 83, 210, 71, 171, 80, 3, 146, 188, 228, 73, 79, 62, 58, 175,
      107, 125, 158, 67, 34, 65, 24, 5, 152, 165, 56, 1, 21, 252, 44, 251,
      118>>,
      <<0, 115, 157, 187, 203, 3, 81, 56, 127, 53, 39, 150, 18, 117, 22, 139,
      104, 78, 11, 170, 108, 98, 165, 50, 183, 94, 225, 46, 248, 50, 186,
      47>>>>,
    <<<<8, 118, 101, 243, 52, 49, 97, 28, 200, 189, 219, 38, 247, 243, 238,
      61, 170, 147, 246, 57, 131, 32, 30, 164, 218, 25, 142, 106, 192, 155,
      34, 233>>,
      <<71, 202, 145, 212, 111, 147, 182, 27, 66, 15, 165, 131, 178, 125,
      219, 134, 252, 169, 194, 82, 227, 119, 74, 185, 212, 247, 78, 168, 251,
      134, 141, 145>>>>,
    <<<<214, 146, 249, 187, 32, 8, 39, 178, 30, 45, 208, 196, 198, 75, 63,
      93, 201, 232, 141, 222, 99, 0, 134, 72, 103, 16, 14, 136, 44, 89, 45,
      64>>,
      <<1, 33, 93, 171, 184, 51, 156, 59, 217, 141, 20, 32, 33, 21, 108, 183,
      195, 11, 21, 0, 147, 204, 168, 238, 183, 55, 182, 215, 160, 246, 96,
      127>>>>,
    <<<<198, 65, 254, 130, 78, 119, 57, 164, 36, 53, 205, 206, 229, 252, 165,
      150, 158, 114, 190, 180, 173, 234, 128, 90, 227, 79, 44, 148, 229, 65,
      24, 56>>,
      <<56, 226, 100, 94, 75, 67, 7, 250, 57, 217, 200, 230, 170, 209, 147,
      12, 112, 110, 15, 38, 136, 84, 46, 133, 37, 41, 90, 106, 71, 88, 160,
      170>>>>,
    <<<<254, 55, 116, 171, 167, 141, 118, 124, 217, 143, 30, 10, 124, 35,
      235, 206, 51, 108, 165, 108, 101, 85, 122, 68, 172, 111, 4, 98, 164,
      62, 131, 6>>,
      <<26, 246, 254, 130, 11, 222, 153, 55, 237, 136, 54, 251, 185, 245,
      208, 7, 188, 221, 217, 127, 204, 50, 198, 68, 226, 223, 134, 87, 123,
      241, 168, 174>>>>,
    <<<<58, 239, 10, 252, 143, 93, 79, 3, 162, 208, 140, 240, 225, 214, 94,
      130, 132, 234, 213, 241, 59, 151, 88, 158, 40, 65, 13, 240, 83, 229,
      210, 25>>,
      <<74, 231, 160, 86, 40, 254, 52, 132, 47, 197, 141, 180, 255, 136, 91,
      9, 129, 14, 128, 176, 109, 81, 14, 234, 25, 9, 201, 165, 66, 74, 26,
      217>>>>,
    <<<<98, 114, 34, 35, 113, 254, 253, 147, 205, 114, 253, 128, 35, 217, 54,
      2, 169, 43, 32, 159, 137, 148, 28, 105, 34, 75, 175, 149, 50, 160, 124,
      205>>,
      <<138, 31, 41, 205, 90, 153, 206, 83, 94, 143, 14, 78, 217, 120, 188,
      105, 76, 30, 172, 23, 92, 149, 3, 11, 160, 155, 67, 165, 68, 172, 252,
      93>>>>,
    <<<<210, 116, 108, 18, 127, 50, 123, 142, 2, 92, 182, 224, 252, 147, 39,
      70, 175, 232, 105, 92, 209, 182, 91, 64, 130, 165, 52, 10, 162, 246,
      16, 134>>,
      <<16, 177, 130, 181, 100, 216, 224, 189, 172, 218, 24, 36, 218, 104,
      102, 150, 88, 219, 87, 77, 172, 104, 232, 0, 229, 159, 176, 241, 116,
      137, 93, 199>>>>,
    <<<<190, 68, 108, 197, 38, 30, 61, 176, 126, 10, 139, 242, 184, 2, 151,
      191, 47, 85, 15, 253, 47, 50, 98, 7, 221, 13, 111, 203, 183, 105, 49,
      60>>,
      <<60, 157, 113, 217, 33, 55, 141, 59, 47, 165, 147, 21, 144, 206, 148,
      60, 198, 155, 147, 85, 112, 104, 158, 213, 169, 30, 183, 244, 109, 233,
      209, 199>>>>,
    <<<<160, 180, 24, 218, 58, 169, 101, 8, 235, 89, 88, 139, 93, 116, 238,
      159, 44, 173, 98, 177, 223, 101, 25, 33, 210, 185, 161, 86, 10, 189,
      125, 218>>,
      <<7, 241, 176, 157, 241, 54, 95, 4, 214, 235, 224, 25, 163, 216, 146,
      148, 165, 48, 28, 228, 237, 242, 60, 203, 145, 145, 93, 156, 244, 23,
      21, 245>>>>,
    <<<<1, 244, 89, 32, 134, 60, 109, 78, 34, 32, 74, 153, 247, 68, 161, 32,
      110, 207, 99, 46, 86, 253, 124, 176, 218, 84, 56, 72, 175, 206, 218,
      113>>,
      <<233, 104, 103, 167, 241, 15, 138, 140, 183, 227, 57, 245, 135, 219,
      183, 131, 210, 209, 110, 94, 58, 139, 249, 171, 2, 244, 99, 144, 158,
      91, 198, 125>>>>,
    <<<<207, 122, 183, 91, 203, 11, 6, 25, 248, 0, 130, 75, 179, 238, 252,
      193, 78, 50, 189, 102, 153, 131, 149, 3, 41, 113, 156, 248, 232, 79,
      228, 155>>,
      <<144, 113, 187, 24, 157, 67, 192, 56, 153, 118, 11, 200, 46, 96, 74,
      123, 20, 77, 38, 206, 21, 2, 47, 97, 219, 185, 63, 170, 215, 23, 89,
      212>>>>,
    <<<<243, 117, 250, 96, 210, 239, 197, 138, 210, 175, 82, 232, 158, 45,
      128, 35, 54, 159, 83, 16, 111, 162, 227, 43, 99, 189, 29, 121, 92, 109,
      118, 40>>,
      <<55, 58, 195, 246, 115, 12, 237, 68, 29, 216, 248, 115, 115, 133, 3,
      203, 182, 196, 104, 216, 223, 77, 70, 118, 193, 100, 77, 75, 37, 110,
      240, 148>>>>,
    <<<<252, 56, 244, 217, 76, 60, 73, 120, 176, 144, 222, 146, 72, 200, 233,
      134, 238, 164, 24, 156, 229, 43, 125, 89, 109, 147, 107, 121, 131, 129,
      187, 136>>,
      <<71, 107, 27, 131, 210, 234, 216, 108, 81, 32, 172, 243, 232, 150, 34,
      255, 104, 205, 59, 34, 239, 38, 121, 36, 235, 209, 228, 51, 85, 183,
      237, 127>>>>,
    <<<<206, 188, 235, 27, 128, 36, 84, 241, 50, 110, 36, 13, 205, 86, 100,
      215, 199, 217, 10, 55, 240, 247, 66, 94, 73, 223, 239, 4, 120, 130, 1,
      224>>,
      <<181, 81, 158, 53, 125, 82, 192, 78, 190, 12, 205, 228, 204, 177, 25,
      1, 35, 99, 57, 141, 4, 140, 112, 69, 39, 24, 237, 245, 106, 248, 211,
      64>>>>,
    <<<<0, 216, 54, 113, 210, 212, 230, 92, 49, 25, 161, 140, 215, 233, 21,
      178, 89, 209, 216, 72, 71, 33, 148, 221, 202, 155, 9, 165, 227, 139,
      88, 252>>,
      <<155, 118, 211, 89, 154, 68, 186, 211, 48, 202, 99, 213, 250, 229,
      196, 187, 131, 167, 173, 114, 80, 192, 83, 147, 215, 199, 111, 106, 66,
      103, 166, 161>>>>,
    <<<<232, 173, 128, 98, 114, 84, 232, 237, 72, 188, 141, 36, 250, 51, 196,
      125, 96, 149, 52, 205, 78, 123, 157, 152, 117, 30, 90, 145, 136, 147,
      170, 182>>,
      <<140, 219, 45, 134, 66, 182, 118, 58, 176, 120, 242, 253, 241, 24,
      243, 80, 197, 218, 31, 149, 151, 116, 132, 16, 144, 102, 234, 47, 17,
      111, 89, 181>>>>,
    <<<<6, 43, 219, 58, 254, 241, 220, 129, 193, 186, 200, 41, 253, 145, 186,
      60, 105, 72, 212, 11, 103, 97, 11, 66, 176, 217, 216, 197, 215, 60,
      205, 115>>,
      <<237, 6, 3, 40, 132, 106, 115, 230, 61, 2, 224, 166, 131, 51, 211,
      102, 253, 22, 198, 211, 231, 155, 170, 175, 27, 82, 250, 13, 5, 219,
      83, 76>>>>,
    <<<<227, 176, 196, 66, 152, 252, 28, 20, 154, 251, 244, 200, 153, 111,
      185, 36, 39, 174, 65, 228, 100, 155, 147, 76, 164, 149, 153, 27, 120,
      82, 184, 85>>,
      <<93, 246, 224, 226, 118, 19, 89, 211, 10, 130, 117, 5, 142, 41, 159,
      204, 3, 129, 83, 69, 69, 245, 92, 244, 62, 65, 152, 63, 93, 76, 148,
      86>>>>,
    <<<<112, 158, 128, 200, 132, 135, 162, 65, 30, 30, 228, 223, 185, 242,
      42, 134, 20, 146, 210, 12, 71, 101, 21, 12, 12, 121, 74, 189, 112, 248,
      20, 124>>,
      <<120, 228, 55, 246, 39, 1, 159, 194, 112, 187, 233, 237, 48, 146, 145,
      208, 165, 246, 191, 152, 191, 174, 15, 117, 5, 56, 186, 86, 100, 111,
      115, 39>>>>,
    <<<<174, 151, 77, 74, 116, 194, 55, 29, 140, 254, 132, 43, 122, 164, 246,
      105, 141, 232, 87, 5, 38, 238, 179, 219, 25, 65, 176, 183, 35, 17, 212,
      112>>,
      <<13, 172, 50, 73, 109, 32, 42, 5, 215, 26, 150, 155, 253, 109, 111, 0,
      95, 162, 155, 57, 28, 234, 109, 56, 30, 194, 148, 0, 245, 78, 71, 149>>>>,
    <<<<225, 175, 69, 121, 96, 224, 108, 56, 251, 73, 14, 117, 229, 83, 106,
      168, 37, 206, 154, 53, 95, 207, 237, 232, 107, 39, 170, 105, 65, 0, 42,
      68>>,
      <<194, 241, 89, 103, 232, 30, 62, 28, 176, 70, 80, 69, 150, 78, 114,
      13, 34, 98, 138, 89, 132, 183, 152, 154, 204, 30, 87, 236, 23, 215,
      212, 56>>>> }

\* Blake2b<U20>: raw public key |-> 20-byte hash

Blake2b20Table == {
    <<<<3, 161, 7, 191, 243, 206, 16, 190, 29, 112, 221, 24, 231, 75, 192,
      153, 103, 228, 214, 48, 155, 165, 13, 95, 29, 220, 134, 100, 18, 85,
      49, 184>>,
      <<240, 165, 148, 210, 151, 141, 168, 128, 63, 105, 99, 37, 234, 10,
      170, 80, 69, 207, 46, 148>>>>,
    <<<<121, 181, 86, 46, 143, 230, 84, 249, 64, 120, 177, 18, 232, 169, 139,
      167, 144, 31, 133, 58, 230, 149, 190, 215, 224, 227, 145, 11, 173, 4,
      150, 100>>,
      <<24, 127, 193, 125, 119, 236, 14, 60, 110, 193, 207, 99, 116, 176, 77,
      149, 148, 201, 101, 154>>>>,
    <<<<3, 42, 91, 188, 176, 238, 222, 82, 142, 106, 190, 95, 46, 197, 10,
      215, 136, 126, 181, 103, 122, 243, 131, 164, 96, 176, 94, 226, 59, 248,
      146, 223, 229>>,
      <<212, 33, 60, 3, 198, 26, 252, 249, 85, 25, 140, 185, 66, 94, 122,
      140, 90, 63, 152, 128>>>>,
    <<<<2, 241, 197, 23, 124, 115, 107, 151, 220, 84, 107, 143, 229, 202,
      168, 31, 124, 232, 192, 121, 110, 21, 17, 126, 153, 26, 170, 167, 130,
      120, 251, 120, 72>>,
      <<69, 196, 67, 5, 146, 249, 177, 97, 148, 203, 218, 29, 218, 1, 11,
      119, 251, 142, 52, 22>>>>,
    <<<<2, 0, 0, 0, 0, 0, 0, 0, 0, 0, 0, 0, 0, 0, 0, 0, 0, 0, 0, 0, 0, 0, 0,
      0, 0, 0, 0, 0, 0, 0, 0, 0>>,
      <<98, 255, 55, 96, 35, 248, 67, 237, 196, 179, 164, 130, 47, 17, 20,
      125, 46, 255, 203, 102>>>>,
    <<<<2, 0, 0, 0, 0, 0, 0, 0, 0, 0, 0, 0, 0, 0, 0, 0, 0, 0, 0, 0, 0, 0, 0,
      0, 0, 0, 0, 0, 0, 0, 0, 0, 5>>,
      <<160, 39, 221, 129, 134, 12, 208, 246, 32, 16, 6, 119, 142, 54, 209,
      103, 162, 49, 60, 65>>>>,
    <<<<2, 0, 0, 0, 0, 0, 0, 0, 0, 0, 0, 0, 0, 0, 0, 0, 0, 0, 0, 0, 0, 0, 0,
      0, 0, 0, 0, 0, 0, 0, 0, 0, 1>>,
      <<178, 99, 220, 204, 241, 41, 66, 155, 166, 170, 25, 183, 247, 96, 239,
      34, 155, 17, 125, 158>>>>,
    <<<<7, 42, 91, 188, 176, 238, 222, 82, 142, 106, 190, 95, 46, 197, 10,
      215, 136, 126, 181, 103, 122, 243, 131, 164, 96, 176, 94, 226, 59, 248,
      146, 223, 229>>,
      <<78, 28, 87, 155, 247, 144, 103, 154, 164, 16, 222, 126, 34, 211, 74,
      172, 75, 0, 37, 69>>>>,
    <<<<7, 241, 197, 23, 124, 115, 107, 151, 220, 84, 107, 143, 229, 202,
      168, 31, 124, 232, 192, 121, 110, 21, 17, 126, 153, 26, 170, 167, 130,
      120, 251, 120, 72>>,
      <<12, 229, 17, 126, 69, 70, 106, 54, 214, 163, 252, 39, 209, 71, 31,
      86, 98, 252, 37, 185>>>> }

\* Blake2b<U32>: packed challenge |-> 32-byte hash

Blake2b32Table == {
    <<<<5, 1, 0, 0, 0, 74, 83, 105, 103, 110, 32, 116, 104, 105, 115, 32,
      109, 101, 115, 115, 97, 103, 101, 32, 116, 111, 32, 108, 111, 103, 32,
      105, 110, 32, 97, 115, 32, 97, 100, 109, 105, 110, 58, 32, 49, 50, 51,
      101, 52, 53, 54, 55, 45, 101, 56, 57, 98, 45, 52, 50, 100, 51, 45, 97,
      52, 53, 54, 45, 52, 50, 54, 54, 49, 52, 49, 55, 52, 48, 48, 48>>,
      <<67, 157, 182, 40, 132, 165, 174, 249, 62, 145, 224, 9, 175, 93, 31,
      216, 12, 206, 85, 246, 138, 158, 71, 94, 21, 160, 148, 84, 40, 74, 174,
      169>>>>,
    <<<<5, 1, 0, 0, 0, 74, 83, 105, 103, 110, 32, 116, 104, 105, 115, 32,
      109, 101, 115, 115, 97, 103, 101, 32, 116, 111, 32, 108, 111, 103, 32,
      105, 110, 32, 97, 115, 32, 97, 100, 109, 105, 110, 58, 32, 48, 48, 48,
      48, 48, 48, 48, 48, 45, 48, 48, 48, 48, 45, 52, 48, 48, 48, 45, 56, 48,
      48, 48, 45, 48, 48, 48, 48, 48, 48, 48, 48, 48, 48, 48, 48>>,
      <<192, 25, 75, 54, 27, 131, 173, 24, 168, 244, 115, 85, 119, 242, 180,
      8, 219, 234, 168, 226, 125, 246, 10, 215, 99, 216, 25, 206, 193, 40,
      202, 54>>>> }

\* raw keys and raw signatures of the texts above

rawA ==
    <<3, 161, 7, 191, 243, 206, 16, 190, 29, 112, 221, 24, 231, 75, 192, 153,
    103, 228, 214, 48, 155, 165, 13, 95, 29, 220, 134, 100, 18, 85, 49, 184>>

rawB ==
    <<121, 181, 86, 46, 143, 230, 84, 249, 64, 120, 177, 18, 232, 169, 139,
    167, 144, 31, 133, 58, 230, 149, 190, 215, 224, 227, 145, 11, 173, 4,
    150, 100>>

rawC ==
    <<3, 42, 91, 188, 176, 238, 222, 82, 142, 106, 190, 95, 46, 197, 10, 215,
    136, 126, 181, 103, 122, 243, 131, 164, 96, 176, 94, 226, 59, 248, 146,
    223, 229>>

rawD ==
    <<2, 241, 197, 23, 124, 115, 107, 151, 220, 84, 107, 143, 229, 202, 168,
    31, 124, 232, 192, 121, 110, 21, 17, 126, 153, 26, 170, 167, 130, 120,
    251, 120, 72>>

rawEdNoPoint ==
    <<2, 0, 0, 0, 0, 0, 0, 0, 0, 0, 0, 0, 0, 0, 0, 0, 0, 0, 0, 0, 0, 0, 0, 0,
    0, 0, 0, 0, 0, 0, 0, 0>>

rawSpOff ==
    <<2, 0, 0, 0, 0, 0, 0, 0, 0, 0, 0, 0, 0, 0, 0, 0, 0, 0, 0, 0, 0, 0, 0, 0,
    0, 0, 0, 0, 0, 0, 0, 0, 5>>

rawP2Off ==
    <<2, 0, 0, 0, 0, 0, 0, 0, 0, 0, 0, 0, 0, 0, 0, 0, 0, 0, 0, 0, 0, 0, 0, 0,
    0, 0, 0, 0, 0, 0, 0, 0, 1>>

rawSpBadTag ==
    <<7, 42, 91, 188, 176, 238, 222, 82, 142, 106, 190, 95, 46, 197, 10, 215,
    136, 126, 181, 103, 122, 243, 131, 164, 96, 176, 94, 226, 59, 248, 146,
    223, 229>>

rawP2BadTag ==
    <<7, 241, 197, 23, 124, 115, 107, 151, 220, 84, 107, 143, 229, 202, 168,
    31, 124, 232, 192, 121, 110, 21, 17, 126, 153, 26, 170, 167, 130, 120,
    251, 120, 72>>

rsA1 ==
    <<204, 181, 220, 23, 145, 164, 98, 104, 55, 141, 13, 28, 43, 86, 46, 213,
    31, 231, 162, 162, 60, 98, 78, 37, 73, 62, 92, 141, 196, 13, 197, 103,
    225, 27, 183, 51, 238, 80, 134, 157, 111, 142, 190, 209, 15, 24, 167,
    217, 209, 219, 222, 80, 193, 36, 136, 187, 156, 41, 92, 254, 167, 5, 93,
    10>>

rsA2 ==
    <<116, 33, 69, 108, 136, 207, 1, 54, 108, 211, 48, 33, 235, 94, 65, 164,
    39, 96, 67, 221, 88, 227, 8, 95, 150, 77, 201, 226, 214, 243, 204, 50, 2,
    47, 96, 28, 104, 138, 77, 63, 144, 201, 90, 14, 0, 72, 222, 60, 25, 232,
    157, 33, 152, 196, 35, 247, 173, 81, 100, 93, 179, 44, 205, 14>>

rsB1 ==
    <<210, 216, 134, 79, 58, 112, 246, 20, 58, 27, 9, 19, 235, 3, 31, 4, 208,
    125, 136, 248, 82, 37, 214, 180, 17, 34, 249, 139, 242, 236, 209, 47, 37,
    11, 80, 240, 193, 49, 75, 151, 118, 36, 129, 208, 188, 141, 233, 148,
    158, 234, 152, 93, 57, 77, 112, 115, 126, 151, 225, 150, 214, 246, 3,
    11>>

rsC1 ==
    <<212, 118, 68, 83, 154, 206, 195, 218, 94, 62, 207, 95, 232, 134, 60,
    98, 138, 156, 151, 232, 183, 30, 158, 169, 22, 122, 111, 79, 131, 192,
    60, 50, 120, 82, 119, 151, 50, 44, 46, 2, 250, 162, 4, 18, 220, 225, 164,
    102, 130, 92, 9, 139, 65, 159, 36, 161, 5, 20, 19, 8, 52, 225, 34, 254>>

rsD1 ==
    <<16, 164, 144, 82, 57, 85, 203, 194, 194, 211, 69, 36, 88, 252, 223,
    151, 196, 115, 52, 105, 241, 135, 144, 95, 92, 182, 115, 71, 244, 36, 78,
    184, 58, 172, 157, 233, 194, 97, 105, 234, 197, 195, 44, 3, 48, 84, 17,
    23, 242, 156, 92, 89, 32, 178, 68, 142, 45, 103, 210, 175, 206, 61, 59,
    121>>

rsA1flip ==
    <<204, 181, 220, 23, 145, 164, 98, 104, 55, 141, 13, 28, 43, 86, 46, 213,
    31, 231, 162, 162, 60, 98, 78, 37, 73, 62, 92, 141, 196, 13, 197, 103,
    225, 27, 183, 51, 238, 80, 134, 157, 110, 142, 190, 209, 15, 24, 167,
    217, 209, 219, 222, 80, 193, 36, 136, 187, 156, 41, 92, 254, 167, 5, 93,
    10>>

rsC1flip ==
    <<212, 118, 68, 83, 154, 206, 195, 218, 94, 62, 207, 95, 232, 134, 60,
    98, 138, 156, 151, 232, 183, 30, 158, 169, 22, 122, 111, 79, 131, 192,
    60, 50, 120, 82, 119, 151, 50, 44, 46, 2, 251, 162, 4, 18, 220, 225, 164,
    102, 130, 92, 9, 139, 65, 159, 36, 161, 5, 20, 19, 8, 52, 225, 34, 254>>

rsZero ==
    <<0, 0, 0, 0, 0, 0, 0, 0, 0, 0, 0, 0, 0, 0, 0, 0, 0, 0, 0, 0, 0, 0, 0, 0,
    0, 0, 0, 0, 0, 0, 0, 0, 0, 0, 0, 0, 0, 0, 0, 0, 0, 0, 0, 0, 0, 0, 0, 0,
    0, 0, 0, 0, 0, 0, 0, 0, 0, 0, 0, 0, 0, 0, 0, 0>>

digest1 ==
    <<67, 157, 182, 40, 132, 165, 174, 249, 62, 145, 224, 9, 175, 93, 31,
    216, 12, 206, 85, 246, 138, 158, 71, 94, 21, 160, 148, 84, 40, 74, 174,
    169>>

digest2 ==
    <<192, 25, 75, 54, 27, 131, 173, 24, 168, 244, 115, 85, 119, 242, 180, 8,
    219, 234, 168, 226, 125, 246, 10, 215, 99, 216, 25, 206, 193, 40, 202,
    54>>

\* ed25519_dalek::VerifyingKey::from_bytes succeeds

Ed25519Points == {rawA, rawB}

\* k256 VerifyingKey::from_encoded_point succeeds

Secp256k1Points == {rawC}

\* p256 VerifyingKey::from_encoded_point succeeds

P256Points == {rawD}

\* k256 Signature::from_slice succeeds

Secp256k1Signatures == {rsA1, rsA2, rsB1, rsC1, rsD1, rsA1flip, rsC1flip}

\* p256 Signature::from_slice succeeds

P256Signatures == {rsA1, rsA2, rsB1, rsC1, rsD1, rsA1flip, rsC1flip}

\* Verifier::verify succeeds: <<curve, key, message, signature>>

VerifiedSignatures == {
    <<"Ed25519", rawA, digest1, rsA1>>,
    <<"Ed25519", rawA, digest2, rsA2>>,
    <<"Ed25519", rawB, digest1, rsB1>>,
    <<"Secp256k1", rawC, digest1, rsC1>>,
    <<"P256", rawD, digest1, rsD1>> }

\* the keys, signatures and messages the tables above decide

KnownRawKeys == {rawA, rawB, rawC, rawD, rawEdNoPoint, rawSpOff, rawP2Off, rawSpBadTag, rawP2BadTag}

KnownRawSignatures == {rsA1, rsA2, rsB1, rsC1, rsD1, rsA1flip, rsC1flip, rsZero}

KnownDigests == {digest1, digest2}
\* END VECTORS

-----------------------------------------------------------------------------
(* bs58, sha2, blake2 and the signature crates, on the vectors             *)

Lookup(table, x) == (CHOOSE e \in table : e[1] = x)[2]

\* 1-9 A-H J-N P-Z a-k m-z
B58Alphabet ==
    (49..57) \cup (65..72) \cup (74..78) \cup (80..90) \cup (97..107) \cup (109..122)

\* bs58::decode(text).into_vec()
bs58_decode(text) ==
    IF \E i \in 1..Len(text) : text[i] \notin B58Alphabet
    THEN Err(<<"provided string contained invalid character">>)
    ELSE Ok(Lookup(Bs58Table, text))

\* bs58::encode(bytes).into_string()
bs58_encode(bytes) == (CHOOSE e \in Bs58Table : e[2] = bytes)[1]

\* sha2::Sha256::new(); update(data); finalize()
Sha256(data) == Lookup(Sha256Table, data)

\* Blake2b::<U20>::new(); update(data); finalize()
Blake2b20(data) == Lookup(Blake2b20Table, data)

\* Blake2b::<U32>::new(); update(data); finalize()
Blake2b32(data) == Lookup(Blake2b32Table, data)

KnownKey(pk) == CHOOSE k \in KnownRawKeys : k = pk
KnownSignature(sig) == CHOOSE s \in KnownRawSignatures : s = sig
KnownDigest(msg) == CHOOSE d \in KnownDigests : d = msg

\* sec1 EncodedPoint::from_bytes (k256::EncodedPoint, p256::EncodedPoint):
\* the tag byte must be one SEC1 defines and the length the one it implies
EncodedPoint_from_bytes(bytes) ==
    IF bytes = <<>> THEN Err(<<"point encoding error">>)
    ELSE LET tag == bytes[1]
             expected_len == CASE tag = 0 -> 1
                               [] tag \in {2, 3, 5} -> 33
                               [] tag = 4 -> 65
                               [] OTHER -> 0
         IN IF tag \notin {0, 2, 3, 4, 5} THEN Err(<<"point encoding error">>)
            ELSE IF Len(bytes) # expected_len THEN Err(<<"point encoding error">>)
            ELSE Ok(bytes)

\* ed25519_dalek::VerifyingKey::from_bytes
Ed25519VerifyingKey_from_bytes(pk) ==
    IF KnownKey(pk) \in Ed25519Points THEN Ok(pk) ELSE Err(<<"signature error">>)

\* k256::ecdsa::VerifyingKey::from_encoded_point
Secp256k1VerifyingKey_from_encoded_point(point) ==
    IF KnownKey(point) \in Secp256k1Points THEN Ok(point) ELSE Err(<<"signature error">>)

\* p256::ecdsa::VerifyingKey::from_encoded_point
P256VerifyingKey_from_encoded_point(point) ==
    IF KnownKey(point) \in P256Points THEN Ok(point) ELSE Err(<<"signature error">>)

\* k256::ecdsa::Signature::from_slice
Secp256k1Signature_from_slice(sig) ==
    IF KnownSignature(sig) \in Secp256k1Signatures THEN Ok(sig) ELSE Err(<<"signature error">>)

\* p256::ecdsa::Signature::from_slice
P256Signature_from_slice(sig) ==
    IF KnownSignature(sig) \in P256Signatures THEN Ok(sig) ELSE Err(<<"signature error">>)

\* signature::Verifier::verify(message, signature).is_ok()
VerifierVerify(curve, key, message, sig) ==
    <<curve, KnownKey(key), KnownDigest(message), KnownSignature(sig)>> \in VerifiedSignatures

-----------------------------------------------------------------------------
(* auth_handler.rs: mod tezos_consts                                       *)

ED25519_PUBLIC_KEY_PREFIX == <<13, 15, 37, 217>>
SECP256K1_PUBLIC_KEY_PREFIX == <<3, 254, 226, 86>>
P256_PUBLIC_KEY_PREFIX == <<3, 178, 139, 127>>

ED25519_SIGNATURE_PREFIX == <<9, 245, 205, 134, 18>>
SECP256K1_SIGNATURE_PREFIX == <<13, 115, 101, 19, 63>>
P256_SIGNATURE_PREFIX == <<54, 240, 44, 52>>

ED25519_PK_RAW_LEN == 32
SECP256K1_PK_COMPRESSED_RAW_LEN == 33
P256_PK_COMPRESSED_RAW_LEN == 33

ED25519_SIG_RAW_LEN == 64
SECP256K1_SIG_RAW_LEN == 64
P256_SIG_RAW_LEN == 64

TZ1_ADDRESS_PREFIX == <<6, 161, 159>>
TZ2_ADDRESS_PREFIX == <<6, 161, 161>>
TZ3_ADDRESS_PREFIX == <<6, 161, 164>>

MICHELINE_PACKED_PREFIX == 5
MICHELINE_STRING_TAG == 1

\* the literals "edpk", "sppk", "p2pk" of from_base58check
edpk == <<101, 100, 112, 107>>
sppk == <<115, 112, 112, 107>>
p2pk == <<112, 50, 112, 107>>

-----------------------------------------------------------------------------
(* auth_handler.rs: the checksum codec                                     *)

\* (variant) the checksum is checked and cut off, the prefix is left on
b58_decode_with_prefix_kept(encoded, expected_prefix) ==
    TryMapErr(bs58_decode(encoded),
        LAMBDA e : ValidationError(<<"Base58 decode error: ">> \o e),
        LAMBDA decoded_with_checksum :
            IF Len(decoded_with_checksum) < Len(expected_prefix) + 4
            THEN Err(ValidationError(<<"Invalid Base58Check data: too short">>))
            ELSE IF Slice(decoded_with_checksum, 1, Len(expected_prefix)) # expected_prefix
            THEN Err(ValidationError(<<"Base58Check prefix mismatch">>))
            ELSE IF Slice(Sha256(Sha256(Slice(decoded_with_checksum, 1,
                                              Len(decoded_with_checksum) - 4))), 1, 4)
                    # Slice(decoded_with_checksum, Len(decoded_with_checksum) - 3,
                            Len(decoded_with_checksum))
            THEN Err(ValidationError(<<"Base58Check checksum mismatch">>))
            ELSE Ok(Slice(decoded_with_checksum, 1, Len(decoded_with_checksum) - 4)))

\* (variant) the prefix is checked and cut off, the checksum is cut off unread
b58_decode_with_prefix_only(encoded, expected_prefix) ==
    TryMapErr(bs58_decode(encoded),
        LAMBDA e : ValidationError(<<"Base58 decode error: ">> \o e),
        LAMBDA decoded_with_checksum :
            IF Len(decoded_with_checksum) < Len(expected_prefix) + 4
            THEN Err(ValidationError(<<"Invalid Base58Check data: too short">>))
            ELSE IF Slice(decoded_with_checksum, 1, Len(expected_prefix)) # expected_prefix
            THEN Err(ValidationError(<<"Base58Check prefix mismatch">>))
            ELSE Ok(Slice(decoded_with_checksum, Len(expected_prefix) + 1,
                          Len(decoded_with_checksum) - 4)))

\* fn b58_decode_with_prefix_check(encoded, expected_prefix) -> Result<Vec<u8>, AppError>
b58_decode_with_prefix_check(encoded, expected_prefix) ==
    TryMapErr(bs58_decode(encoded),
        LAMBDA e : ValidationError(<<"Base58 decode error: ">> \o e),
        LAMBDA decoded_with_checksum :
            IF Len(decoded_with_checksum) < Len(expected_prefix) + 4
            THEN Err(ValidationError(<<"Invalid Base58Check data: too short">>))
            ELSE
            LET prefix_len == Len(expected_prefix)
                payload_and_prefix_len == Len(decoded_with_checksum) - 4
                received_prefix == Slice(decoded_with_checksum, 1, prefix_len)
            IN IF received_prefix # expected_prefix
               THEN Err(ValidationError(<<"Base58Check prefix mismatch">>))
               ELSE
               LET payload == Slice(decoded_with_checksum, prefix_len + 1,
                                    payload_and_prefix_len)
                   hash1 == Sha256(Slice(decoded_with_checksum, 1, payload_and_prefix_len))
                   hash2 == Sha256(hash1)
                   expected_checksum == Slice(hash2, 1, 4)
                   received_checksum == Slice(decoded_with_checksum,
                                              payload_and_prefix_len + 1,
                                              Len(decoded_with_checksum))
               IN IF expected_checksum # received_checksum
                  THEN Err(ValidationError(<<"Base58Check checksum mismatch">>))
                  ELSE Ok(payload))

\* fn b58_encode_with_prefix(payload, prefix) -> String
b58_encode_with_prefix(payload, prefix) ==
    LET data_to_encode == prefix \o payload
        hash1 == Sha256(data_to_encode)
        hash2 == Sha256(hash1)
    IN bs58_encode(data_to_encode \o Slice(hash2, 1, 4))

\* A usize (64-bit target) is written in 16-bit limbs, the highest first:
\* <<h, m, l>> is h * 2^32 + m * 2^16 + l, with h < 2^32 and m, l < 2^16.  A
\* u32 is <<m, l>>.

\* the usize that is the length of a sequence held in memory here
usize_of(n) == <<0, n \div 65536, n % 65536>>

\* `as u32` on a usize: the low 32 bits
as_u32(n) == <<n[2], n[3]>>

\* u32::to_be_bytes
u32_to_be_bytes(x) == <<x[1] \div 256, x[1] % 256, x[2] \div 256, x[2] % 256>>

\* pack_micheline_string up to the length field, for a string of s_bytes_len
\* bytes: the two pushes and the first extend_from_slice
pack_micheline_head(s_bytes_len) ==
    LET s_len == as_u32(s_bytes_len)
    IN <<MICHELINE_PACKED_PREFIX, MICHELINE_STRING_TAG>> \o u32_to_be_bytes(s_len)

\* fn pack_micheline_string(data) -> Result<Vec<u8>, AppError>
pack_micheline_string(data) ==
    LET s_bytes == data
    IN Ok(pack_micheline_head(usize_of(Len(s_bytes))) \o s_bytes)

-----------------------------------------------------------------------------
(* auth_handler.rs: enum TezosCryptoPublicKey                              *)

Ed25519(bytes) == [curve |-> "Ed25519", bytes |-> bytes]
Secp256k1(point) == [curve |-> "Secp256k1", bytes |-> point]
P256(point) == [curve |-> "P256", bytes |-> point]

\* pub fn from_base58check(key_str) -> Result<Self, AppError>
from_base58check(key_str) ==
    IF StartsWith(key_str, edpk)
    THEN Try(b58_decode_with_prefix_check(key_str, ED25519_PUBLIC_KEY_PREFIX),
             LAMBDA raw_pk :
                 IF Len(raw_pk) # ED25519_PK_RAW_LEN
                 THEN Err(ValidationError(<<"Invalid Ed25519 public key length">>))
                 ELSE Ok(Ed25519(raw_pk)))
    ELSE IF StartsWith(key_str, sppk)
    THEN Try(b58_decode_with_prefix_check(key_str, SECP256K1_PUBLIC_KEY_PREFIX),
             LAMBDA raw_pk_with_prefix_payload :
                 IF Len(raw_pk_with_prefix_payload) # SECP256K1_PK_COMPRESSED_RAW_LEN
                 THEN Err(ValidationError(<<"Invalid Secp256k1 public key length">>))
                 ELSE TryMapErr(EncodedPoint_from_bytes(raw_pk_with_prefix_payload),
                          LAMBDA e : ValidationError(<<"Secp256k1 PK decode error: ">> \o e),
                          LAMBDA point : Ok(Secp256k1(point))))
    ELSE IF StartsWith(key_str, p2pk)
    THEN Try(b58_decode_with_prefix_check(key_str, P256_PUBLIC_KEY_PREFIX),
             LAMBDA raw_pk_with_prefix_payload :
                 IF Len(raw_pk_with_prefix_payload) # P256_PK_COMPRESSED_RAW_LEN
                 THEN Err(ValidationError(<<"Invalid P256 public key length">>))
                 ELSE TryMapErr(EncodedPoint_from_bytes(raw_pk_with_prefix_payload),
                          LAMBDA e : ValidationError(<<"P256 PK decode error: ">> \o e),
                          LAMBDA point : Ok(P256(point))))
    ELSE Err(ValidationError(<<"Unsupported public key prefix">>))

\* (variant) a verifier that reports every signature as verified
verify_signature_any(self, signature_b58, message_hash) == Ok(TRUE)

\* (variant) an Ed25519 key takes signatures under the secp256k1 prefix
verify_signature_other_prefix(self, signature_b58, message_hash) ==
    CASE self.curve = "Ed25519" ->
           Try(b58_decode_with_prefix_check(signature_b58, SECP256K1_SIGNATURE_PREFIX),
               LAMBDA sig_bytes :
                   IF Len(sig_bytes) # ED25519_SIG_RAW_LEN
                   THEN Err(ValidationError(<<"Invalid Ed25519 signature length">>))
                   ELSE TryMapErr(Ed25519VerifyingKey_from_bytes(self.bytes),
                            LAMBDA e : Internal(<<"Ed25519 VK build error: ">> \o e),
                            LAMBDA verifying_key :
                                Ok(VerifierVerify("Ed25519", verifying_key, message_hash,
                                                  sig_bytes))))
      [] self.curve = "Secp256k1" ->
           Try(b58_decode_with_prefix_check(signature_b58, SECP256K1_SIGNATURE_PREFIX),
               LAMBDA sig_bytes :
                   IF Len(sig_bytes) # SECP256K1_SIG_RAW_LEN
                   THEN Err(ValidationError(<<"Invalid Secp256k1 signature length">>))
                   ELSE TryMapErr(Secp256k1Signature_from_slice(sig_bytes),
                            LAMBDA e : ValidationError(<<"Secp256k1 sig decode error: ">> \o e),
                            LAMBDA signature :
                                TryMapErr(Secp256k1VerifyingKey_from_encoded_point(self.bytes),
                                    LAMBDA e : Internal(<<"Secp256k1 VK build error: ">> \o e),
                                    LAMBDA verifying_key :
                                        Ok(VerifierVerify("Secp256k1", verifying_key,
                                                          message_hash, signature)))))
      [] self.curve = "P256" ->
           Try(b58_decode_with_prefix_check(signature_b58, P256_SIGNATURE_PREFIX),
               LAMBDA sig_bytes :
                   IF Len(sig_bytes) # P256_SIG_RAW_LEN
                   THEN Err(ValidationError(<<"Invalid P256 signature length">>))
                   ELSE TryMapErr(P256Signature_from_slice(sig_bytes),
                            LAMBDA e : ValidationError(<<"P256 sig decode error: ">> \o e),
                            LAMBDA signature :
                                TryMapErr(P256VerifyingKey_from_encoded_point(self.bytes),
                                    LAMBDA e : Internal(<<"P256 VK build error: ">> \o e),
                                    LAMBDA verifying_key :
                                        Ok(VerifierVerify("P256", verifying_key,
                                                          message_hash, signature)))))

\* pub fn verify_signature(&self, signature_b58, message_hash) -> Result<bool, AppError>
verify_signature(self, signature_b58, message_hash) ==
    CASE self.curve = "Ed25519" ->
           Try(b58_decode_with_prefix_check(signature_b58, ED25519_SIGNATURE_PREFIX),
               LAMBDA sig_bytes :
                   IF Len(sig_bytes) # ED25519_SIG_RAW_LEN
                   THEN Err(ValidationError(<<"Invalid Ed25519 signature length">>))
                   ELSE TryMapErr(Ed25519VerifyingKey_from_bytes(self.bytes),
                            LAMBDA e : Internal(<<"Ed25519 VK build error: ">> \o e),
                            LAMBDA verifying_key :
                                Ok(VerifierVerify("Ed25519", verifying_key, message_hash,
                                                  sig_bytes))))
      [] self.curve = "Secp256k1" ->
           Try(b58_decode_with_prefix_check(signature_b58, SECP256K1_SIGNATURE_PREFIX),
               LAMBDA sig_bytes :
                   IF Len(sig_bytes) # SECP256K1_SIG_RAW_LEN
                   THEN Err(ValidationError(<<"Invalid Secp256k1 signature length">>))
                   ELSE TryMapErr(Secp256k1Signature_from_slice(sig_bytes),
                            LAMBDA e : ValidationError(<<"Secp256k1 sig decode error: ">> \o e),
                            LAMBDA signature :
                                TryMapErr(Secp256k1VerifyingKey_from_encoded_point(self.bytes),
                                    LAMBDA e : Internal(<<"Secp256k1 VK build error: ">> \o e),
                                    LAMBDA verifying_key :
                                        Ok(VerifierVerify("Secp256k1", verifying_key,
                                                          message_hash, signature)))))
      [] self.curve = "P256" ->
           Try(b58_decode_with_prefix_check(signature_b58, P256_SIGNATURE_PREFIX),
               LAMBDA sig_bytes :
                   IF Len(sig_bytes) # P256_SIG_RAW_LEN
                   THEN Err(ValidationError(<<"Invalid P256 signature length">>))
                   ELSE TryMapErr(P256Signature_from_slice(sig_bytes),
                            LAMBDA e : ValidationError(<<"P256 sig decode error: ">> \o e),
                            LAMBDA signature :
                                TryMapErr(P256VerifyingKey_from_encoded_point(self.bytes),
                                    LAMBDA e : Internal(<<"P256 VK build error: ">> \o e),
                                    LAMBDA verifying_key :
                                        Ok(VerifierVerify("P256", verifying_key,
                                                          message_hash, signature)))))

\* pub fn public_key_hash_b58check(&self) -> Result<String, AppError>
public_key_hash_b58check(self) ==
    LET raw_pk_bytes_for_hash == self.bytes
        pkh_raw == Blake2b20(raw_pk_bytes_for_hash)
        address_prefix == CASE self.curve = "Ed25519" -> TZ1_ADDRESS_PREFIX
                            [] self.curve = "Secp256k1" -> TZ2_ADDRESS_PREFIX
                            [] self.curve = "P256" -> TZ3_ADDRESS_PREFIX
    IN Ok(b58_encode_with_prefix(pkh_raw, address_prefix))

-----------------------------------------------------------------------------
(* config.rs: AuthConfig and Config::from_env                              *)

\* struct AuthConfig
AuthConfig(enable_tezos_auth, admin_tezos_addresses, dev_mode, cookie_hmac_key) ==
    [enable_tezos_auth |-> enable_tezos_auth,
     admin_tezos_addresses |-> admin_tezos_addresses,
     dev_mode |-> dev_mode,
     cookie_hmac_key |-> cookie_hmac_key]

\* Config::from_env, the auth part.  env holds the variables as read and parsed:
\*   ENABLE_TEZOS_AUTH, DEV_MODE: the parsed flag (false when unset or unparsable);
\*   ADMIN_TEZOS_ADDRESSES: the entries between the commas, trimmed;
\*   COOKIE_HMAC_KEY: None when unset, else Some(hex::decode(value)).
\* random is what generate_random_key() returns in this run.
from_env(env, random) ==
    LET admin_tezos_addresses ==
            SelectSeq(env.ADMIN_TEZOS_ADDRESSES, LAMBDA addr : addr # <<>>)
        cookie_hmac_key ==
            IF IsSome(env.COOKIE_HMAC_KEY)
            THEN LET key_bytes == IF IsOk(Unwrap(env.COOKIE_HMAC_KEY))
                                  THEN Unwrap(env.COOKIE_HMAC_KEY).val
                                  ELSE random
                 IN IF Len(key_bytes) # 32 THEN random ELSE key_bytes
            ELSE random
    IN AuthConfig(env.ENABLE_TEZOS_AUTH, admin_tezos_addresses, env.DEV_MODE,
                  cookie_hmac_key)

-----------------------------------------------------------------------------
(* axum_extra CookieJar (cookie crate), for the one cookie of this service  *)

SESSION_COOKIE == "tezos_admin_session"

\* Cookie::new(name, value): no attribute set
Cookie_new(name, value) ==
    [name |-> name, value |-> value, path |-> None, http_only |-> None,
     secure |-> None, same_site |-> None, max_age |-> None]

\* the jar of a request: the cookies of its Cookie header, and no change yet
\* sent is the value the client sends for the session cookie, or None
CookieJar_from_request(sent) ==
    [original |-> IF IsSome(sent) THEN {Cookie_new(SESSION_COOKIE, Unwrap(sent))} ELSE {},
     delta |-> {}]

\* CookieJar::get(name)
CookieJar_get(jar, name) ==
    IF \E d \in jar.delta : d.cookie.name = name
    THEN LET d == CHOOSE d \in jar.delta : d.cookie.name = name
         IN IF d.removed THEN None ELSE Some(d.cookie)
    ELSE IF \E c \in jar.original : c.name = name
         THEN Some(CHOOSE c \in jar.original : c.name = name)
         ELSE None

\* CookieJar::add(cookie)
CookieJar_add(jar, cookie) ==
    [jar EXCEPT !.delta = {d \in jar.delta : d.cookie.name # cookie.name}
                          \cup {[cookie |-> cookie, removed |-> FALSE]}]

\* CookieJar::remove(cookie): a removal cookie (empty value, Max-Age 0) when
\* the request carried the cookie, else only the pending change is dropped
CookieJar_remove(jar, cookie) ==
    IF \E c \in jar.original : c.name = cookie.name
    THEN [jar EXCEPT !.delta =
             {d \in jar.delta : d.cookie.name # cookie.name}
             \cup {[cookie |-> [cookie EXCEPT !.value = <<>>, !.max_age = Some(0)],
                    removed |-> TRUE]}]
    ELSE [jar EXCEPT !.delta = {d \in jar.delta : d.cookie.name # cookie.name}]

\* the client's side: the value it holds for the session cookie after a
\* response with these Set-Cookie headers
ClientStore(held, set_cookies) ==
    IF \E d \in set_cookies : d.cookie.name = SESSION_COOKIE
    THEN LET d == CHOOSE d \in set_cookies : d.cookie.name = SESSION_COOKIE
         IN IF d.removed THEN None ELSE Some(d.cookie.value)
    ELSE held

-----------------------------------------------------------------------------
(* Responses                                                               *)

\* (variant) the message of every error, an Internal one too, goes in the body
AppError_into_response_detail(e) ==
    [status |-> CASE e.kind = "Unauthorized" -> 401
                  [] e.kind = "ValidationError" -> 400
                  [] e.kind = "Internal" -> 500,
     body |-> [success |-> FALSE,
               error |-> IF e.kind = "Unauthorized" THEN <<"Unauthorized">> ELSE e.msg],
     set_cookies |-> {},
     location |-> None]

\* errors.rs: impl IntoResponse for AppError
AppError_into_response(e) ==
    LET status == CASE e.kind = "Unauthorized" -> 401
                    [] e.kind = "ValidationError" -> 400
                    [] e.kind = "Internal" -> 500
        error_message == CASE e.kind = "Unauthorized" -> <<"Unauthorized">>
                           [] e.kind = "ValidationError" -> e.msg
                           [] e.kind = "Internal" -> <<"Internal server error">>
    IN [status |-> status,
        body |-> [success |-> FALSE, error |-> error_message],
        set_cookies |-> {},
        location |-> None]

\* Redirect::to(uri).into_response()
Redirect_to(uri) ==
    [status |-> 303, body |-> [empty |-> TRUE], set_cookies |-> {}, location |-> Some(uri)]

\* impl IntoResponse for Result<(CookieJar, Response), AppError>: the changes
\* of the jar become the Set-Cookie headers of the response
into_response(result) ==
    IF IsOk(result)
    THEN [result.val.response EXCEPT !.set_cookies = result.val.jar.delta]
    ELSE AppError_into_response(result.err)

-----------------------------------------------------------------------------
(* auth.rs: AdminAuth                                                      *)

AdminAuth(is_dev_admin, tezos_admin_address) ==
    [is_dev_admin |-> is_dev_admin, tezos_admin_address |-> tezos_admin_address]

\* pub fn is_admin(&self) -> bool
is_admin(self) == self.is_dev_admin \/ IsSome(self.tezos_admin_address)

\* pub fn public() -> Self
AdminAuth_public == AdminAuth(FALSE, None)

-----------------------------------------------------------------------------
(* auth_handler.rs: the handlers                                           *)

\* "Sign this message to log in as admin: "
ChallengeGreeting ==
    <<83, 105, 103, 110, 32, 116, 104, 105, 115, 32, 109, 101, 115, 115, 97, 103,
      101, 32, 116, 111, 32, 108, 111, 103, 32, 105, 110, 32, 97, 115, 32, 97, 100,
      109, 105, 110, 58, 32>>

\* hex::encode: two lower-case hexadecimal digits a byte
hex_encode(bytes) ==
    LET digits == <<48, 49, 50, 51, 52, 53, 54, 55, 56, 57, 97, 98, 99, 100, 101, 102>>
    IN [k \in 1..(2 * Len(bytes)) |->
           IF k % 2 = 1 THEN digits[(bytes[(k + 1) \div 2] \div 16) + 1]
           ELSE digits[(bytes[k \div 2] % 16) + 1]]

\* pub async fn get_tezos_challenge; uuid is what Uuid::new_v4() returns, as text
get_tezos_challenge(uuid) ==
    Bind(ChallengeGreeting \o uuid, LAMBDA challenge :
        Try(pack_micheline_string(challenge), LAMBDA packed_bytes :
            Ok([challenge |-> challenge, packed_bytes_hex |-> hex_encode(packed_bytes)])))

\* (variant) the checks, with an address outside the allowlist answered by
\* a message of its own
tezos_login_checks_telling(app_state, payload) ==
    TryMapErr(from_base58check(payload.public_key),
        LAMBDA e : ValidationError(<<"Invalid public key format or value: ">> \o Display(e)),
        LAMBDA public_key :
    Try(public_key_hash_b58check(public_key), LAMBDA derived_pkh :
        IF derived_pkh # payload.pkh
        THEN Err(ValidationError(
                   <<"Public key hash does not match the provided public key.">>))
        ELSE
    Try(pack_micheline_string(payload.challenge), LAMBDA packed_challenge_bytes :
    Bind(Blake2b32(packed_challenge_bytes), LAMBDA message_hash_to_verify :
    Bind(verify_signature(public_key, payload.signature, message_hash_to_verify),
        LAMBDA verified :
            IF IsOk(verified) /\ ~verified.val THEN Err(Unauthorized)
            ELSE IF ~IsOk(verified)
            THEN IF verified.err.kind = "ValidationError" THEN verified
                 ELSE Err(Internal(<<"Signature verification processing error: ">>
                                   \o <<verified.err.kind>> \o verified.err.msg))
            ELSE IF ~Contains(app_state.admin_tezos_addresses, payload.pkh)
            THEN Err(ValidationError(<<"Not an admin address.">>))
            ELSE Ok(payload.pkh))))))

\* (variant) the checks, with the signature verified before the address is
\* compared with the one derived from the key
tezos_login_checks_signature_first(app_state, payload) ==
    TryMapErr(from_base58check(payload.public_key),
        LAMBDA e : ValidationError(<<"Invalid public key format or value: ">> \o Display(e)),
        LAMBDA public_key :
    Try(pack_micheline_string(payload.challenge), LAMBDA packed_challenge_bytes :
    Bind(Blake2b32(packed_challenge_bytes), LAMBDA message_hash_to_verify :
    Bind(verify_signature(public_key, payload.signature, message_hash_to_verify),
        LAMBDA verified :
            IF IsOk(verified) /\ ~verified.val THEN Err(Unauthorized)
            ELSE IF ~IsOk(verified)
            THEN IF verified.err.kind = "ValidationError" THEN verified
                 ELSE Err(Internal(<<"Signature verification processing error: ">>
                                   \o <<verified.err.kind>> \o verified.err.msg))
            ELSE
    Try(public_key_hash_b58check(public_key), LAMBDA derived_pkh :
        IF derived_pkh # payload.pkh
        THEN Err(ValidationError(
                   <<"Public key hash does not match the provided public key.">>))
        ELSE IF ~Contains(app_state.admin_tezos_addresses, payload.pkh)
        THEN Err(Unauthorized)
        ELSE Ok(payload.pkh))))))

\* (variant) the checks, with every failure of verify_signature wrapped as
\* Internal
tezos_login_checks_all_internal(app_state, payload) ==
    TryMapErr(from_base58check(payload.public_key),
        LAMBDA e : ValidationError(<<"Invalid public key format or value: ">> \o Display(e)),
        LAMBDA public_key :
    Try(public_key_hash_b58check(public_key), LAMBDA derived_pkh :
        IF derived_pkh # payload.pkh
        THEN Err(ValidationError(
                   <<"Public key hash does not match the provided public key.">>))
        ELSE
    Try(pack_micheline_string(payload.challenge), LAMBDA packed_challenge_bytes :
    Bind(Blake2b32(packed_challenge_bytes), LAMBDA message_hash_to_verify :
    Bind(verify_signature(public_key, payload.signature, message_hash_to_verify),
        LAMBDA verified :
            IF IsOk(verified) /\ ~verified.val THEN Err(Unauthorized)
            ELSE IF ~IsOk(verified)
            THEN Err(Internal(<<"Signature verification processing error: ">>
                              \o <<verified.err.kind>> \o verified.err.msg))
            ELSE IF ~Contains(app_state.admin_tezos_addresses, payload.pkh)
            THEN Err(Unauthorized)
            ELSE Ok(payload.pkh))))))

\* tezos_login, the checks (the code up to the allowlist test): Ok(pkh) when
\* the submission passes them all, else the error returned
tezos_login_checks(app_state, payload) ==
    TryMapErr(from_base58check(payload.public_key),
        LAMBDA e : ValidationError(<<"Invalid public key format or value: ">> \o Display(e)),
        LAMBDA public_key :
    Try(public_key_hash_b58check(public_key), LAMBDA derived_pkh :
        IF derived_pkh # payload.pkh
        THEN Err(ValidationError(
                   <<"Public key hash does not match the provided public key.">>))
        ELSE
    Try(pack_micheline_string(payload.challenge), LAMBDA packed_challenge_bytes :
    Bind(Blake2b32(packed_challenge_bytes), LAMBDA message_hash_to_verify :
    Bind(verify_signature(public_key, payload.signature, message_hash_to_verify),
        LAMBDA verified :
            IF IsOk(verified) /\ ~verified.val THEN Err(Unauthorized)
            ELSE IF ~IsOk(verified)
            THEN IF verified.err.kind = "ValidationError" THEN verified
                 ELSE Err(Internal(<<"Signature verification processing error: ">>
                                   \o <<verified.err.kind>> \o verified.err.msg))
            ELSE IF ~Contains(app_state.admin_tezos_addresses, payload.pkh)
            THEN Err(Unauthorized)
            ELSE Ok(payload.pkh))))))

\* (variant) the session cookie with a Max-Age of one day
tezos_login_cookie_one_day(app_state, pkh) ==
    LET session_data == TezosAdminSession(pkh)
        session_json == serde_json_to_string(session_data)
    IN IF ~IsOk(session_json) THEN Err(Internal(<<"Serialize session error: ">>))
       ELSE LET signed_cookie_value ==
                    sign_session_cookie(session_json.val, app_state.cookie_hmac_key)
            IN Ok([Cookie_new(SESSION_COOKIE, signed_cookie_value)
                   EXCEPT !.path = Some("/"),
                          !.http_only = Some(TRUE),
                          !.secure = Some(TRUE),
                          !.same_site = Some("Lax"),
                          !.max_age = Some(3600 * 24)])

\* tezos_login, the session cookie it builds for an address
tezos_login_cookie(app_state, pkh) ==
    LET session_data == TezosAdminSession(pkh)
        session_json == serde_json_to_string(session_data)
    IN IF ~IsOk(session_json) THEN Err(Internal(<<"Serialize session error: ">>))
       ELSE LET signed_cookie_value ==
                    sign_session_cookie(session_json.val, app_state.cookie_hmac_key)
            IN Ok([Cookie_new(SESSION_COOKIE, signed_cookie_value)
                   EXCEPT !.path = Some("/"),
                          !.http_only = Some(TRUE),
                          !.secure = Some(TRUE),
                          !.same_site = Some("Lax"),
                          !.max_age = Some(3600 * 24 * 7)])

\* (variant) the cookie is put in the jar before the checks, and a failed
\* check is answered with the error response and that jar
tezos_login_cookie_first(app_state, jar, payload) ==
    Bind(CookieJar_add(jar, tezos_login_cookie(app_state, payload.pkh).val),
        LAMBDA updated_jar :
    Bind(tezos_login_checks(app_state, payload), LAMBDA checked :
        IF ~IsOk(checked)
        THEN Ok([jar |-> updated_jar, response |-> AppError_into_response(checked.err)])
        ELSE Ok([jar |-> updated_jar,
                 response |-> [status |-> 200,
                               body |-> [json_string |-> "Login successful"],
                               set_cookies |-> {}, location |-> None]])))

\* (variant) a login that refuses a request which already carries a session
tezos_login_once(app_state, jar, payload) ==
    IF IsSome(CookieJar_get(jar, SESSION_COOKIE)) THEN Err(Unauthorized)
    ELSE
    Try(tezos_login_checks(app_state, payload), LAMBDA checked :
    Try(tezos_login_cookie(app_state, payload.pkh), LAMBDA cookie :
        Ok([jar |-> CookieJar_add(jar, cookie),
            response |-> [status |-> 200,
                          body |-> [json_string |-> "Login successful"],
                          set_cookies |-> {},
                          location |-> None]])))

\* (variant) a login that is refused while a session issued before is on
\* record: the service keeps a table of sessions and allows one
tezos_login_one_session(app_state, jar, payload) ==
    IF minted # {} THEN Err(Unauthorized)
    ELSE
    Try(tezos_login_checks(app_state, payload), LAMBDA checked :
    Try(tezos_login_cookie(app_state, payload.pkh), LAMBDA cookie :
        Ok([jar |-> CookieJar_add(jar, cookie),
            response |-> [status |-> 200,
                          body |-> [json_string |-> "Login successful"],
                          set_cookies |-> {},
                          location |-> None]])))

\* pub async fn tezos_login(State(app_state), jar, Json(payload))
\*     -> Result<(CookieJar, Response), AppError>
tezos_login(app_state, jar, payload) ==
    Try(tezos_login_checks(app_state, payload), LAMBDA checked :
    Try(tezos_login_cookie(app_state, payload.pkh), LAMBDA cookie :
        LET updated_jar == CookieJar_add(jar, cookie)
            response_body == [status |-> 200,
                              body |-> [json_string |-> "Login successful"],
                              set_cookies |-> {},
                              location |-> None]
        IN Ok([jar |-> updated_jar, response |-> response_body])))

\* (variant) a logout that redirects and leaves the jar as it came
logout_jar_kept(app_state, jar) ==
    Ok([jar |-> jar, response |-> Redirect_to("/login")])

\* pub async fn logout(State(_app_state), jar)
logout(app_state, jar) ==
    LET cookie == [Cookie_new(SESSION_COOKIE, <<>>) EXCEPT !.path = Some("/")]
        updated_jar == CookieJar_remove(jar, cookie)
        response_body == Redirect_to("/login")
    IN Ok([jar |-> updated_jar, response |-> response_body])

\* (variant) a status that asks only whether the cookie verifies
auth_status_session_only(app_state, jar) ==
    LET cookie == CookieJar_get(jar, SESSION_COOKIE)
        session == IF IsSome(cookie)
                   THEN verify_session_cookie(Unwrap(cookie).value,
                                              app_state.cookie_hmac_key)
                   ELSE None
    IN Ok([authenticated |-> IsSome(session) \/ app_state.dev_mode,
           dev_mode |-> app_state.dev_mode,
           is_admin_address |-> IF IsSome(session) THEN Some(TRUE) ELSE None])

\* (variant) is_admin_address is in the object whenever authenticated is true
auth_status_address_always(app_state, jar) ==
    LET cookie == CookieJar_get(jar, SESSION_COOKIE)
        session == IF IsSome(cookie)
                   THEN verify_session_cookie(Unwrap(cookie).value,
                                              app_state.cookie_hmac_key)
                   ELSE None
        listed == IsSome(session)
                  /\ Contains(app_state.admin_tezos_addresses, Unwrap(session).address)
    IN Ok([authenticated |-> listed \/ app_state.dev_mode,
           dev_mode |-> app_state.dev_mode,
           is_admin_address |-> IF listed \/ app_state.dev_mode THEN Some(TRUE) ELSE None])

\* pub async fn auth_status(State(app_state), jar): the JSON object returned
auth_status(app_state, jar) ==
    LET cookie == CookieJar_get(jar, SESSION_COOKIE)
        session == IF IsSome(cookie)
                   THEN verify_session_cookie(Unwrap(cookie).value,
                                              app_state.cookie_hmac_key)
                   ELSE None
        listed == IsSome(session)
                  /\ Contains(app_state.admin_tezos_addresses, Unwrap(session).address)
    IN Ok([authenticated |-> listed \/ app_state.dev_mode,
           dev_mode |-> app_state.dev_mode,
           is_admin_address |-> IF listed THEN Some(TRUE) ELSE None])

-----------------------------------------------------------------------------
(* handlers.rs: the cache cleanup endpoint                                  *)

\* what service.check_api_rate_limit(client_id) may answer: Ok(()), or
\* RateLimitExceeded once the calls of the last minute have reached the limit
RateLimitOutcomes == {Ok(<<>>), Err("RateLimitExceeded")}

\* pub async fn cleanup_cache(State(service)); rate_limit is what
\* check_api_rate_limit answers, ran tells whether service.cleanup_cache() ran
cleanup_cache(service, rate_limit) ==
    IF rate_limit = Err("RateLimitExceeded")
    THEN [ran |-> FALSE,
          response |-> [status |-> 429, body |-> [empty |-> TRUE],
                        set_cookies |-> {}, location |-> None]]
    ELSE [ran |-> TRUE,
          response |-> [status |-> 200,
                        body |-> [success |-> TRUE,
                                  data |-> [message |-> "Cache cleanup completed"]],
                        set_cookies |-> {}, location |-> None]]

-----------------------------------------------------------------------------
(* auth_middleware.rs                                                      *)

\* (variant) the middleware without the development bypass
require_auth_middleware_no_bypass(app_state, jar) ==
    IF ~app_state.enable_tezos_auth THEN [next |-> TRUE]
    ELSE
    LET cookie == CookieJar_get(jar, SESSION_COOKIE)
        session == IF IsSome(cookie)
                   THEN verify_session_cookie(Unwrap(cookie).value,
                                              app_state.cookie_hmac_key)
                   ELSE None
    IN IF IsSome(session)
          /\ Contains(app_state.admin_tezos_addresses, Unwrap(session).address)
       THEN [next |-> TRUE]
       ELSE [next |-> FALSE, response |-> Redirect_to("/login")]

\* pub async fn require_auth_middleware(State(app_state), jar, request, next):
\* "next" when the request is passed on, else the redirect
require_auth_middleware(app_state, jar) ==
    IF ~app_state.enable_tezos_auth THEN [next |-> TRUE]
    ELSE
    LET cookie == CookieJar_get(jar, SESSION_COOKIE)
        session == IF IsSome(cookie)
                   THEN verify_session_cookie(Unwrap(cookie).value,
                                              app_state.cookie_hmac_key)
                   ELSE None
    IN IF IsSome(session)
          /\ Contains(app_state.admin_tezos_addresses, Unwrap(session).address)
       THEN [next |-> TRUE]
       ELSE IF app_state.dev_mode THEN [next |-> TRUE]
       ELSE [next |-> FALSE, response |-> Redirect_to("/login")]

\* (variant) the enable flag is not looked at
extract_admin_auth_flag_ignored(app_state, jar) ==
    LET cookie == CookieJar_get(jar, SESSION_COOKIE)
        session == IF IsSome(cookie)
                   THEN verify_session_cookie(Unwrap(cookie).value,
                                              app_state.cookie_hmac_key)
                   ELSE None
    IN IF IsSome(session)
          /\ Contains(app_state.admin_tezos_addresses, Unwrap(session).address)
       THEN AdminAuth(FALSE, Some(Unwrap(session).address))
       ELSE IF app_state.dev_mode THEN AdminAuth(TRUE, None)
       ELSE AdminAuth_public

\* (variant) the development bypass is tested before the session cookie
extract_admin_auth_bypass_first(app_state, jar) ==
    IF ~app_state.enable_tezos_auth THEN AdminAuth_public
    ELSE IF app_state.dev_mode THEN AdminAuth(TRUE, None)
    ELSE
    LET cookie == CookieJar_get(jar, SESSION_COOKIE)
        session == IF IsSome(cookie)
                   THEN verify_session_cookie(Unwrap(cookie).value,
                                              app_state.cookie_hmac_key)
                   ELSE None
    IN IF IsSome(session)
          /\ Contains(app_state.admin_tezos_addresses, Unwrap(session).address)
       THEN AdminAuth(FALSE, Some(Unwrap(session).address))
       ELSE AdminAuth_public

\* (variant) a session of an address that is not allowlisted falls to public,
\* whatever the development flag
extract_admin_auth_no_fallthrough(app_state, jar) ==
    IF ~app_state.enable_tezos_auth THEN AdminAuth_public
    ELSE
    LET cookie == CookieJar_get(jar, SESSION_COOKIE)
        session == IF IsSome(cookie)
                   THEN verify_session_cookie(Unwrap(cookie).value,
                                              app_state.cookie_hmac_key)
                   ELSE None
    IN IF IsSome(session)
       THEN IF Contains(app_state.admin_tezos_addresses, Unwrap(session).address)
            THEN AdminAuth(FALSE, Some(Unwrap(session).address))
            ELSE AdminAuth_public
       ELSE IF app_state.dev_mode THEN AdminAuth(TRUE, None)
       ELSE AdminAuth_public

\* (variant) a capability from a session carries the development flag too
extract_admin_auth_flag_carried(app_state, jar) ==
    IF ~app_state.enable_tezos_auth THEN AdminAuth_public
    ELSE
    LET cookie == CookieJar_get(jar, SESSION_COOKIE)
        session == IF IsSome(cookie)
                   THEN verify_session_cookie(Unwrap(cookie).value,
                                              app_state.cookie_hmac_key)
                   ELSE None
    IN IF IsSome(session)
          /\ Contains(app_state.admin_tezos_addresses, Unwrap(session).address)
       THEN AdminAuth(app_state.dev_mode, Some(Unwrap(session).address))
       ELSE IF app_state.dev_mode THEN AdminAuth(TRUE, None)
       ELSE AdminAuth_public

\* pub fn extract_admin_auth(app_state, jar) -> AdminAuth
extract_admin_auth(app_state, jar) ==
    IF ~app_state.enable_tezos_auth THEN AdminAuth_public
    ELSE
    LET cookie == CookieJar_get(jar, SESSION_COOKIE)
        session == IF IsSome(cookie)
                   THEN verify_session_cookie(Unwrap(cookie).value,
                                              app_state.cookie_hmac_key)
                   ELSE None
    IN IF IsSome(session)
          /\ Contains(app_state.admin_tezos_addresses, Unwrap(session).address)
       THEN AdminAuth(FALSE, Some(Unwrap(session).address))
       ELSE IF app_state.dev_mode THEN AdminAuth(TRUE, None)
       ELSE AdminAuth_public

-----------------------------------------------------------------------------
(* The service as a state machine.                                         *)
(*   config  the AuthConfig loaded by Config::from_env at process start    *)
(*   jars    what each client's browser holds for the session cookie       *)
(*   minted  history: the session tokens that logins have issued so far,   *)
(*           each with the key, the address and the submission it was for, *)
(*           the Max-Age it was sent with and the seconds gone since       *)
(*   last    the last exchange: the request as sent and the answer         *)

\* number of browsers
NumClients == 1

Clients == 1..NumClients

\* 32-byte keys: the one the operator may configure, one more the generator may draw
KeyOne == [i \in 1..32 |-> i]
KeyTwo == [i \in 1..32 |-> 255 - i]

\* the environment variables of a process start, as from_env reads them
Env(enable, addresses, dev, key) ==
    [ENABLE_TEZOS_AUTH |-> enable, ADMIN_TEZOS_ADDRESSES |-> addresses,
     DEV_MODE |-> dev, COOKIE_HMAC_KEY |-> key]

\* the deployments: wallets A and C administer ("tzA,,tzC"), with the key
\* generated or configured; A revoked; the bypass on; the feature off; A
\* revoked with the bypass on
Environments ==
    {Env(TRUE, <<tzA, <<>>, tzC>>, FALSE, None),
     Env(TRUE, <<tzA, <<>>, tzC>>, FALSE, Some(Ok(KeyOne))),
     Env(TRUE, <<tzC>>, FALSE, None),
     Env(TRUE, <<tzA, <<>>, tzC>>, TRUE, None),
     Env(FALSE, <<tzA, <<>>, tzC>>, FALSE, None),
     Env(TRUE, <<tzC>>, TRUE, Some(Ok(KeyOne)))}

RandomKeys == {KeyOne, KeyTwo}

TezosLoginPayload(pkh, public_key, signature, challenge) ==
    [pkh |-> pkh, public_key |-> public_key, signature |-> signature,
     challenge |-> challenge]

\* login submissions: the honest ones of wallets A and B (B is never
\* allowlisted), and one failing at each step of the chain
Submissions ==
    {TezosLoginPayload(tzA, pkA, sigA1, challenge1),
     TezosLoginPayload(tzB, pkB, sigB1, challenge1),
     TezosLoginPayload(tzA, pkBadSum, sigA1, challenge1),
     TezosLoginPayload(tzA, pkB, sigB1, challenge1),
     TezosLoginPayload(tzA, pkA, sigA1, challenge2),
     TezosLoginPayload(tzA, pkA, sigBadSum, challenge1),
     TezosLoginPayload(tzSpOff, pkSpOff, sigC1, challenge1)}

\* a cookie value anyone can write down: base64 of the JSON of a session
LegacyCookie(address) ==
    base64_encode(serde_json_to_string(TezosAdminSession(address)).val)

\* a token with its '.' and MAC half cut off
DropMac(token) == Slice(token, 1, RFind(token, DOT) - 1)

\* what a client may send as its session cookie: what its browser holds, or
\* a value it writes itself
Presentable(c) ==
    {jars[c], Some(LegacyCookie(tzA))}
    \cup (IF IsSome(jars[c]) THEN {Some(DropMac(Unwrap(jars[c])))} ELSE {})

Init ==
    /\ \E env \in Environments, random \in RandomKeys : config = from_env(env, random)
    /\ jars = [c \in Clients |-> None]
    /\ minted = {}
    /\ last = [op |-> "start"]

\* the process is started again: main() loads the configuration anew
Restart(env, random) ==
    /\ config' = from_env(env, random)
    /\ last' = [op |-> "restart", env |-> env, random |-> random]
    /\ UNCHANGED <<jars, minted>>

\* GET the challenge; uuid is the fresh UUID
GetChallenge(c, uuid) ==
    /\ last' = [op |-> "challenge", client |-> c, result |-> get_tezos_challenge(uuid)]
    /\ UNCHANGED <<config, jars, minted>>

\* the login request answered with result
LoginAnswered(c, payload, result) ==
    LET response == into_response(result)
    IN /\ jars' = [jars EXCEPT ![c] = ClientStore(@, response.set_cookies)]
       /\ minted' = minted \cup
             {[token |-> d.cookie.value, key |-> config.cookie_hmac_key,
               address |-> payload.pkh, payload |-> payload,
               max_age |-> d.cookie.max_age, age |-> 0] :
                 d \in {d \in response.set_cookies : ~d.removed}}
       /\ last' = [op |-> "login", client |-> c, sent |-> jars[c],
                   payload |-> payload, result |-> result, response |-> response]
       /\ UNCHANGED config

\* POST the login
Login(c, payload) ==
    LoginAnswered(c, payload,
                  tezos_login(config, CookieJar_from_request(jars[c]), payload))

\* (variant) a logout after which the service signs and verifies with
\* another key
Logout_key_changed(c) ==
    LET jar == CookieJar_from_request(jars[c])
        result == logout(config, jar)
        response == into_response(result)
    IN /\ jars' = [jars EXCEPT ![c] = ClientStore(@, response.set_cookies)]
       /\ last' = [op |-> "logout", client |-> c, sent |-> jars[c],
                   result |-> result, response |-> response]
       /\ config' = [config EXCEPT !.cookie_hmac_key =
                                      IF @ = KeyOne THEN KeyTwo ELSE KeyOne]
       /\ UNCHANGED minted

\* the logout request
Logout(c) ==
    LET jar == CookieJar_from_request(jars[c])
        result == logout(config, jar)
        response == into_response(result)
    IN /\ jars' = [jars EXCEPT ![c] = ClientStore(@, response.set_cookies)]
       /\ last' = [op |-> "logout", client |-> c, sent |-> jars[c],
                   result |-> result, response |-> response]
       /\ UNCHANGED <<config, minted>>

\* GET the status, sending the cookie value sent (or none)
Status(c, sent) ==
    /\ last' = [op |-> "status", client |-> c, sent |-> sent,
                result |-> auth_status(config, CookieJar_from_request(sent))]
    /\ UNCHANGED <<config, jars, minted>>

\* a request to a route behind require_auth_middleware
Guarded(c, sent) ==
    /\ last' = [op |-> "guarded", client |-> c, sent |-> sent,
                result |-> require_auth_middleware(config, CookieJar_from_request(sent))]
    /\ UNCHANGED <<config, jars, minted>>

\* a handler asks extract_admin_auth for the capability of the request
Extract(c, sent) ==
    /\ last' = [op |-> "extract", client |-> c, sent |-> sent,
                result |-> extract_admin_auth(config, CookieJar_from_request(sent))]
    /\ UNCHANGED <<config, jars, minted>>

\* POST /api/admin/cache/cleanup (main.rs: a route of the API router, outside
\* the routes behind require_auth_middleware); the handler takes no cookie jar
Cleanup(c, sent, rate_limit) ==
    /\ last' = [op |-> "cleanup", client |-> c, sent |-> sent,
                rate_limit |-> rate_limit,
                result |-> cleanup_cache(config, rate_limit)]
    /\ UNCHANGED <<config, jars, minted>>

Uuids == {Slice(challenge1, Len(ChallengeGreeting) + 1, Len(challenge1)),
          Slice(challenge2, Len(ChallengeGreeting) + 1, Len(challenge2))}

Next ==
    \/ \E env \in Environments, random \in RandomKeys : Restart(env, random)
    \/ \E c \in Clients, uuid \in Uuids : GetChallenge(c, uuid)
    \/ \E c \in Clients, payload \in Submissions : Login(c, payload)
    \/ \E c \in Clients : Logout(c)
    \/ \E c \in Clients : \E sent \in Presentable(c) : Status(c, sent)
    \/ \E c \in Clients : \E sent \in Presentable(c) : Guarded(c, sent)
    \/ \E c \in Clients : \E sent \in Presentable(c) : Extract(c, sent)

Spec == Init /\ [][Next]_vars

-----------------------------------------------------------------------------
(* tezos_login over the whole product of submissions                       *)

LoginKeys ==
    {pkA, pkB, pkC, pkD, pkEdNoPoint, pkSpOff, pkP2Off, pkSpBadTag, pkP2BadTag,
     pkBadSum, pkNotB58, pkCut, pkShort, tzA}

LoginSignatures ==
    {sigA1, sigA2, sigB1, sigC1, sigD1, sigA1flip, sigC1flip, sigSpZero, sigP2Zero,
     sigGeneric, sigBadSum, sigNotB58, sigEdShort}

LoginAddresses == {tzA, tzB, tzC, tzD, tzEdNoPoint, tzSpOff, tzP2Off}

Challenges == {challenge1, challenge2}

LoginProduct ==
    {TezosLoginPayload(pkh, public_key, signature, challenge) :
        pkh \in LoginAddresses, public_key \in LoginKeys,
        signature \in LoginSignatures, challenge \in Challenges}

\* a client is about to submit some payload to some deployment
LoginInit ==
    /\ \E env \in Environments : config = from_env(env, KeyTwo)
    /\ jars = [c \in Clients |-> None]
    /\ minted = {}
    /\ \E payload \in LoginProduct :
          last = [op |-> "submit", client |-> 1, payload |-> payload]

SubmitLogin == last.op = "submit" /\ Login(last.client, last.payload)

LoginSpec == LoginInit /\ [][SubmitLogin]_vars

\* what the wallets really are: each key with the address that is the hash of
\* it, and each signature with the key and challenge it was made with
WalletAddress ==
    {<<pkA, tzA>>, <<pkB, tzB>>, <<pkC, tzC>>, <<pkD, tzD>>,
     <<pkEdNoPoint, tzEdNoPoint>>, <<pkSpOff, tzSpOff>>, <<pkP2Off, tzP2Off>>}
WalletSigned ==
    {<<pkA, challenge1, sigA1>>, <<pkA, challenge2, sigA2>>, <<pkB, challenge1, sigB1>>,
     <<pkC, challenge1, sigC1>>, <<pkD, challenge1, sigD1>>}

\* the login answered with success, or handed out a cookie
LoginGranted ==
    /\ last.op = "login"
    /\ \/ last.response.status = 200
       \/ last.response.set_cookies # {}
       \/ jars[last.client] # last.sent
       \/ minted # {}

\* C1: tezos_login sets the tezos_admin_session cookie (answers success) only
\* if the submitted public_key is a key of a supported curve, the submitted
\* pkh is the address of that key, the signature is one made with that key
\* over the submitted challenge, and pkh is in the configured allowlist; and
\* the session in the cookie it sets carries exactly that pkh.
C1_LoginOnlyAfterAllChecks ==
    LoginGranted =>
        LET p == last.payload
        IN /\ StartsWith(p.public_key, edpk) \/ StartsWith(p.public_key, sppk)
              \/ StartsWith(p.public_key, p2pk)
           /\ <<p.public_key, p.pkh>> \in WalletAddress
           /\ <<p.public_key, p.challenge, p.signature>> \in WalletSigned
           /\ \E i \in 1..Len(config.admin_tezos_addresses) :
                 config.admin_tezos_addresses[i] = p.pkh
           /\ last.response.status = 200
           /\ Cardinality(last.response.set_cookies) = 1
           /\ \A d \in last.response.set_cookies :
                 /\ ~d.removed
                 /\ d.cookie.name = "tezos_admin_session"
                 /\ verify_session_cookie(d.cookie.value, config.cookie_hmac_key)
                       = Some([address |-> p.pkh])
                 /\ jars[last.client] = Some(d.cookie.value)

\* a login of wallet C (secp256k1) went through
C1_Witness ==
    /\ last.op = "login"
    /\ last.response.status = 200
    /\ last.payload.pkh = tzC
    /\ jars[last.client] # None

-----------------------------------------------------------------------------
(* Claims on the running service                                           *)

\* the last request was let in as an administrator
Admitted ==
    \/ last.op = "extract" /\ is_admin(last.result)
    \/ last.op = "guarded" /\ last.result.next

\* C2: with the feature enabled and the bypass off, extract_admin_auth gives
\* an admin capability, and require_auth_middleware lets a request through,
\* only for a cookie value that an earlier successful tezos_login minted with
\* the configured HMAC key; a value a client wrote itself admits nobody.
C2_AdminOnlyByMintedCookie ==
    (Admitted /\ config.enable_tezos_auth /\ ~config.dev_mode) =>
        \E m \in minted : /\ last.sent = Some(m.token)
                          /\ m.key = config.cookie_hmac_key

-----------------------------------------------------------------------------
(* The session token by itself: sign, alter, verify                        *)

\* the sessions signed: wallet A, and addresses that need care in JSON or
\* in the token ("a.b", a quote and a backslash, the empty string)
Sessions ==
    {TezosAdminSession(tzA), TezosAdminSession(<<97, 46, 98>>),
     TezosAdminSession(<<34, 92>>), TezosAdminSession(<<>>)}

\* the symbols put in the place of one of the token: 'A', 'w', '.'
TamperSymbols == {65, 119, DOT}

Delete(t, i) == Slice(t, 1, i - 1) \o Slice(t, i + 1, Len(t))
Insert(t, j, c) == Slice(t, 1, j) \o <<c>> \o Slice(t, j + 1, Len(t))

\* the tokens derived from t by one alteration: one symbol replaced, one
\* symbol deleted (the '.' too), the '.' moved elsewhere, the MAC half cut
\* off with or without the '.'
Tamperings(t) ==
    LET n == Len(t)
        dot == RFind(t, DOT)
    IN ({[t EXCEPT ![i] = c] : i \in 1..n, c \in TamperSymbols}
        \cup {Delete(t, i) : i \in 1..n}
        \cup {Insert(Delete(t, dot), j, DOT) : j \in 0..(n - 1)}
        \cup {Slice(t, 1, dot), Slice(t, 1, dot - 1)})
       \ {t}

\* a session is about to be signed with the configured key
TokenInit ==
    /\ \E random \in RandomKeys :
          config = from_env(Env(TRUE, <<tzA>>, FALSE, None), random)
    /\ jars = [c \in Clients |-> None]
    /\ minted = {}
    /\ \E session \in Sessions : last = [op |-> "session", session |-> session]

\* the token of the session, as tezos_login makes it
SignSession ==
    /\ last.op = "session"
    /\ last' = [op |-> "signed", session |-> last.session,
                token |-> sign_session_cookie(
                              serde_json_to_string(last.session).val,
                              config.cookie_hmac_key)]
    /\ UNCHANGED <<config, jars, minted>>

\* the token, or a token derived from it, is verified with some key
VerifyToken(sent, key) ==
    /\ last.op = "signed"
    /\ last' = [op |-> "verified", session |-> last.session, token |-> last.token,
                sent |-> sent, key |-> key,
                result |-> verify_session_cookie(sent, key)]
    /\ UNCHANGED <<config, jars, minted>>

TokenNext ==
    \/ SignSession
    \/ /\ last.op = "signed"
       /\ \E key \in RandomKeys :
             \E sent \in {last.token} \cup Tamperings(last.token) : VerifyToken(sent, key)

TokenSpec == TokenInit /\ [][TokenNext]_vars

\* C3: for a token t signed with a key, verify_session_cookie with that key
\* returns None for every altered token t' # t derived from t: the data half
\* changed, the MAC half changed, the '.' removed or moved, the MAC half
\* dropped altogether.
C3_TamperedTokenRejected ==
    (last.op = "verified" /\ last.key = config.cookie_hmac_key /\ last.sent # last.token)
        => last.result = None

\* an altered token that still has a '.' is rejected
TamperedSignedFormRejected ==
    (last.op = "verified" /\ last.key = config.cookie_hmac_key
     /\ last.sent # last.token /\ RFind(last.sent, DOT) # 0)
        => last.result = None

\* C5: for every session {address} and every key, verifying with that key
\* the token signed with it over the serialized session returns the session,
\* with the same address.
C5_SignThenVerify ==
    (last.op = "verified" /\ last.sent = last.token
     /\ last.key = config.cookie_hmac_key)
        => last.result = Some(last.session)

\* the token of the session whose address is a quote and a backslash came back
C5_Witness ==
    /\ last.op = "verified"
    /\ last.sent = last.token
    /\ last.key = config.cookie_hmac_key
    /\ last.session.address = <<34, 92>>
    /\ last.result = Some([address |-> <<34, 92>>])

-----------------------------------------------------------------------------
(* Claims on the running service, continued                                *)

\* C4: a token signed with one key does not verify with another; so once a
\* restart has put another HMAC key in place, no token that a login minted
\* before is accepted by verify_session_cookie, by extract_admin_auth or by
\* require_auth_middleware.
C4_OtherKeyRejects ==
    \A m \in minted :
        m.key # config.cookie_hmac_key =>
            /\ verify_session_cookie(m.token, config.cookie_hmac_key) = None
            /\ (last.op = "extract" /\ last.sent = Some(m.token)) =>
                   /\ last.result.tezos_admin_address = None
                   /\ last.result.is_dev_admin =>
                          (config.enable_tezos_auth /\ config.dev_mode)
            /\ (last.op = "guarded" /\ last.sent = Some(m.token)
                /\ config.enable_tezos_auth /\ ~config.dev_mode) =>
                   ~last.result.next

\* wallet A logged in, the service restarted with another key and A still
\* allowlisted, and A's browser was turned away with its cookie
C4_Witness ==
    /\ last.op = "guarded"
    /\ config.enable_tezos_auth /\ ~config.dev_mode
    /\ \E i \in 1..Len(config.admin_tezos_addresses) :
          config.admin_tezos_addresses[i] = tzA
    /\ \E m \in minted : /\ m.key # config.cookie_hmac_key
                         /\ m.address = tzA
                         /\ last.sent = Some(m.token)
                         /\ jars[last.client] = Some(m.token)
    /\ ~last.result.next

\* C6: whenever tezos_login answers with an error, at whichever step it
\* fails, no session is created: no token is minted, the response carries no
\* cookie, and the client's cookie is what it was.
C6_FailedLoginNoSession ==
    [][(last'.op = "login" /\ last'.response.status # 200) =>
          /\ minted' = minted
          /\ jars' = jars
          /\ last'.response.set_cookies = {}
          /\ ~IsOk(last'.result)]_vars

\* a logged-in client submitted a login that failed at the signature
C6_Witness ==
    /\ last.op = "login"
    /\ last.response.status = 401
    /\ last.sent # None
    /\ jars[last.client] = last.sent
    /\ last.payload.challenge = challenge2

-----------------------------------------------------------------------------
(* The gate by itself: every configuration against every kind of cookie    *)

\* the token tezos_login makes for an address under a key
SessionToken(address, key) ==
    sign_session_cookie(serde_json_to_string(TezosAdminSession(address)).val, key)

\* what a request may carry as tezos_admin_session: nothing; the tokens of
\* wallets A, B and C under either key; a token with its last symbol
\* changed; an unsigned session; text that is no token
GateCookies ==
    {None, Some(<<120, 120, 120>>), Some(LegacyCookie(tzC)),
     Some([SessionToken(tzA, KeyOne) EXCEPT ![1] = 102])}
    \cup {Some(SessionToken(address, key)) :
             address \in {tzA, tzB, tzC}, key \in RandomKeys}

GateConfigs ==
    {from_env(Env(enable, addresses, dev, None), random) :
        enable \in BOOLEAN, dev \in BOOLEAN,
        addresses \in {<<tzA, <<>>, tzC>>, <<tzC>>}, random \in RandomKeys}

\* a request is about to reach the service
GateInit ==
    /\ config \in GateConfigs
    /\ jars = [c \in Clients |-> None]
    /\ minted = {}
    /\ \E sent \in GateCookies : last = [op |-> "request", client |-> 1, sent |-> sent]

GateExtract == last.op = "request" /\ Extract(last.client, last.sent)
GateGuarded == last.op = "request" /\ Guarded(last.client, last.sent)
GateStatus == last.op = "request" /\ Status(last.client, last.sent)

GateCleanup ==
    /\ last.op = "request"
    /\ \E rate_limit \in RateLimitOutcomes : Cleanup(last.client, last.sent, rate_limit)

GateNext == GateExtract \/ GateGuarded \/ GateStatus \/ GateCleanup

GateSpec == GateInit /\ [][GateNext]_vars

\* the request's cookie verifies under the configured key and names an
\* allowlisted address
SentAllowlistedSession ==
    /\ last.sent # None
    /\ verify_session_cookie(Unwrap(last.sent), config.cookie_hmac_key) # None
    /\ \E i \in 1..Len(config.admin_tezos_addresses) :
          config.admin_tezos_addresses[i]
              = Unwrap(verify_session_cookie(Unwrap(last.sent),
                                             config.cookie_hmac_key)).address

\* C7: with enable_tezos_auth false, extract_admin_auth returns the public
\* capability (is_dev_admin false, no address) for every cookie and whatever
\* the dev flag, also for a valid session of an allowlisted address.
C7_DisabledIsPublic ==
    (last.op = "extract" /\ ~config.enable_tezos_auth) =>
        last.result = [is_dev_admin |-> FALSE, tezos_admin_address |-> None]

\* feature off, bypass on, and wallet C presenting its valid token
C7_Witness ==
    /\ last.op = "extract"
    /\ ~config.enable_tezos_auth /\ config.dev_mode
    /\ last.sent = Some(SessionToken(tzC, config.cookie_hmac_key))
    /\ SentAllowlistedSession
    /\ ~is_admin(last.result)

\* C8: with the feature enabled, a cookie that verifies and whose address is
\* in the allowlist of the configuration in force gives {is_dev_admin: false,
\* tezos_admin_address: Some(address)}, the bypass on or off; a cookie that
\* verifies for an address outside the allowlist never gives a capability
\* bound to an address.
C8_SessionBeforeBypass ==
    (last.op = "extract" /\ config.enable_tezos_auth /\ last.sent # None
     /\ verify_session_cookie(Unwrap(last.sent), config.cookie_hmac_key) # None) =>
        LET address == Unwrap(verify_session_cookie(Unwrap(last.sent),
                                                    config.cookie_hmac_key)).address
        IN IF \E i \in 1..Len(config.admin_tezos_addresses) :
                  config.admin_tezos_addresses[i] = address
           THEN last.result = [is_dev_admin |-> FALSE,
                                tezos_admin_address |-> Some(address)]
           ELSE last.result.tezos_admin_address = None

\* bypass on, and wallet A's valid token gives the capability bound to A
C8_Witness ==
    /\ last.op = "extract"
    /\ config.enable_tezos_auth /\ config.dev_mode
    /\ last.sent = Some(SessionToken(tzA, config.cookie_hmac_key))
    /\ last.result = [is_dev_admin |-> FALSE, tezos_admin_address |-> Some(tzA)]

\* C9: with the feature enabled and no cookie that both verifies and names
\* an allowlisted address, extract_admin_auth returns {is_dev_admin: true,
\* tezos_admin_address: None} when dev_mode is on and the public capability
\* when it is off.
C9_BypassElsePublic ==
    (last.op = "extract" /\ config.enable_tezos_auth /\ ~SentAllowlistedSession) =>
        last.result = IF config.dev_mode
                      THEN [is_dev_admin |-> TRUE, tezos_admin_address |-> None]
                      ELSE [is_dev_admin |-> FALSE, tezos_admin_address |-> None]

\* bypass on, and the valid token of wallet A after A left the allowlist
C9_Witness ==
    /\ last.op = "extract"
    /\ config.enable_tezos_auth /\ config.dev_mode
    /\ last.sent = Some(SessionToken(tzA, config.cookie_hmac_key))
    /\ ~SentAllowlistedSession
    /\ last.result = [is_dev_admin |-> TRUE, tezos_admin_address |-> None]

\* the middleware's answer agrees with extract_admin_auth on the same request
GuardedAsExtract ==
    /\ last.result.next
          = is_admin(extract_admin_auth(config, CookieJar_from_request(last.sent)))
    /\ ~last.result.next =>
          /\ last.result.response.status = 303
          /\ last.result.response.location = Some("/login")

\* C10 as stated: for every configuration and cookie jar the middleware lets
\* the request through exactly when extract_admin_auth gives a capability
\* with is_admin() true, and otherwise redirects to /login.
C10_Original == (last.op = "guarded") => GuardedAsExtract

\* C10 as amended: that holds with enable_tezos_auth true; with it false the
\* middleware lets every request through (and extract_admin_auth gives the
\* public capability).
C10_GuardedAsExtractWhenEnabled ==
    (last.op = "guarded") =>
        IF config.enable_tezos_auth THEN GuardedAsExtract
        ELSE /\ last.result.next
             /\ ~is_admin(extract_admin_auth(config, CookieJar_from_request(last.sent)))

\* feature on, bypass off, no cookie: redirected, and no capability either
C10_Witness ==
    /\ last.op = "guarded"
    /\ config.enable_tezos_auth /\ ~config.dev_mode
    /\ last.sent = None
    /\ ~last.result.next
    /\ last.result.response.location = Some("/login")

-----------------------------------------------------------------------------
(* Claims on tezos_login over the whole product of submissions, continued   *)

\* C11: a login that fails ends in one of the three error kinds, and the
\* answer is 400 with the validation message for a ValidationError, 401 with
\* "Unauthorized" for Unauthorized, and 500 with "Internal server error" for
\* Internal; no part of an Internal error's detail is in the body.  A login
\* answered with another status than 200 is one that failed.
C11_FailuresInThreeKinds ==
    (last.op = "login") =>
        /\ (last.response.status # 200) = ~IsOk(last.result)
        /\ ~IsOk(last.result) =>
              LET e == last.result.err
                  r == last.response
              IN /\ e.kind \in {"ValidationError", "Unauthorized", "Internal"}
                 /\ r.body.success = FALSE
                 /\ e.kind = "ValidationError" =>
                        r.status = 400 /\ r.body.error = e.msg
                 /\ e.kind = "Unauthorized" =>
                        r.status = 401 /\ r.body.error = <<"Unauthorized">>
                 /\ e.kind = "Internal" =>
                        /\ r.status = 500
                        /\ r.body.error = <<"Internal server error">>
                        /\ e.msg # <<>>
                        /\ \A i \in 1..Len(e.msg) : e.msg[i] \notin Range(r.body.error)

\* a key that is no point of secp256k1 failed inside the verifier: 500, and
\* the body says nothing of it
C11_Witness ==
    /\ last.op = "login"
    /\ last.payload.public_key = pkSpOff
    /\ last.result.err.kind = "Internal"
    /\ last.response.status = 500
    /\ last.response.body.error = <<"Internal server error">>

\* the signatures each (sound) key's curve parses: <<key, signature>>
CurveSignatures ==
    ({pkA, pkB} \X {sigA1, sigA2, sigB1, sigA1flip})
    \cup ({pkC} \X {sigC1, sigC1flip})
    \cup ({pkD} \X {sigD1})

\* the submission names a wallet's key and address, with a signature of that
\* curve which the wallet did not make over the submitted challenge
SubmittedForeignSignature ==
    LET p == last.payload
    IN /\ <<p.public_key, p.pkh>> \in WalletAddress
       /\ <<p.public_key, p.signature>> \in CurveSignatures
       /\ <<p.public_key, p.challenge, p.signature>> \notin WalletSigned

\* the submission is a wallet's own, signature and all, and the wallet's
\* address is not in the allowlist
SubmittedByOutsider ==
    LET p == last.payload
    IN /\ <<p.public_key, p.pkh>> \in WalletAddress
       /\ <<p.public_key, p.challenge, p.signature>> \in WalletSigned
       /\ \A i \in 1..Len(config.admin_tezos_addresses) :
             config.admin_tezos_addresses[i] # p.pkh

\* C12: a login rejected because its signature does not verify and a login
\* rejected because its address is not in the allowlist get the same answer:
\* status 401, the body {success: false, error: "Unauthorized"}, no cookie;
\* nothing in it tells which of the two checks failed.
C12_SameAnswerForBothRejections ==
    (last.op = "login" /\ (SubmittedForeignSignature \/ SubmittedByOutsider)) =>
        /\ last.result = Err(Unauthorized)
        /\ last.response = [status |-> 401,
                            body |-> [success |-> FALSE, error |-> <<"Unauthorized">>],
                            set_cookies |-> {},
                            location |-> None]

\* wallet B, which administers nowhere, submitted its own signed challenge
C12_Witness ==
    /\ last.op = "login"
    /\ last.payload = TezosLoginPayload(tzB, pkB, sigB1, challenge1)
    /\ SubmittedByOutsider
    /\ config.enable_tezos_auth
    /\ last.response.status = 401

\* wallet A, an administrator, submitted its signature over another challenge
ForeignSignatureRejected ==
    /\ last.op = "login"
    /\ last.payload = TezosLoginPayload(tzA, pkA, sigA2, challenge1)
    /\ SubmittedForeignSignature
    /\ \E i \in 1..Len(config.admin_tezos_addresses) :
          config.admin_tezos_addresses[i] = tzA
    /\ last.response.status = 401

-----------------------------------------------------------------------------
(* Claims on the running service: login, status, logout                    *)

\* the last request asked the status with the token m of an earlier login,
\* and the key in force is the key of that login
StatusWithMinted(m) ==
    /\ last.op = "status"
    /\ last.sent = Some(m.token)
    /\ m.key = config.cookie_hmac_key

\* C13 as stated: after a successful login, the status asked with the cookie
\* of that login says authenticated: true while the address is in the
\* allowlist, and authenticated: false once the address has left it.
C13_Original ==
    \A m \in minted :
        StatusWithMinted(m) =>
            last.result.val.authenticated
                = Contains(config.admin_tezos_addresses, m.address)

\* C13 as amended: that holds with dev_mode off; with dev_mode on the status
\* says authenticated: true also after the address has left the allowlist
\* (and is_admin_address is then absent).
C13_StatusFollowsAllowlist ==
    \A m \in minted :
        StatusWithMinted(m) =>
            /\ last.result.val.authenticated
                  = (Contains(config.admin_tezos_addresses, m.address) \/ config.dev_mode)
            /\ last.result.val.is_admin_address
                  = IF Contains(config.admin_tezos_addresses, m.address)
                    THEN Some(TRUE) ELSE None

\* wallet A logged in, a restart with the same key took A off the allowlist,
\* and the status asked with A's cookie says authenticated: false
C13_Witness ==
    /\ last.op = "status"
    /\ ~config.dev_mode
    /\ ~Contains(config.admin_tezos_addresses, tzA)
    /\ jars[last.client] = last.sent
    /\ \E m \in minted : StatusWithMinted(m) /\ m.address = tzA
    /\ ~last.result.val.authenticated

-----------------------------------------------------------------------------
(* The service between two restarts: the configuration stays as loaded     *)

\* what clients submit: as before, and also wallet A's signature over the
\* other challenge and wallet C's
ReplaySubmissions ==
    Submissions \cup {TezosLoginPayload(tzA, pkA, sigA2, challenge2),
                      TezosLoginPayload(tzC, pkC, sigC1, challenge1)}

ReplayNext ==
    \/ \E c \in Clients, uuid \in Uuids : GetChallenge(c, uuid)
    \/ \E c \in Clients, payload \in ReplaySubmissions : Login(c, payload)
    \/ \E c \in Clients : Logout(c)
    \/ \E c \in Clients : \E sent \in Presentable(c) : Status(c, sent)
    \/ \E c \in Clients : \E sent \in Presentable(c) : Guarded(c, sent)
    \/ \E c \in Clients : \E sent \in Presentable(c) : Extract(c, sent)

ReplaySpec == Init /\ [][ReplayNext]_vars

\* C14: the service keeps no record of challenges issued or used.  With the
\* configuration unchanged, a submission that logged in once logs in again
\* whenever it is submitted, whatever requests came in between; and a
\* wallet's signed submission for an allowlisted address logs in as the very
\* first request, no challenge having been issued at all.
C14_ReplayAccepted ==
    [][(last'.op = "login" /\ config' = config) =>
          /\ (\E m \in minted : m.payload = last'.payload) =>
                /\ last'.response.status = 200
                /\ \E m \in minted : /\ m.payload = last'.payload
                                     /\ jars'[last'.client] = Some(m.token)
          /\ (/\ last.op = "start"
              /\ <<last'.payload.public_key, last'.payload.challenge,
                   last'.payload.signature>> \in WalletSigned
              /\ <<last'.payload.public_key, last'.payload.pkh>> \in WalletAddress
              /\ Contains(config.admin_tezos_addresses, last'.payload.pkh)) =>
                last'.response.status = 200]_vars

\* a client holding the cookie of its login submitted again and was logged
\* in again: the one submission on record is the one it had made before
C14_Witness ==
    /\ last.op = "login"
    /\ last.response.status = 200
    /\ last.sent # None
    /\ Cardinality(minted) = 1
    /\ \E m \in minted : m.payload = last.payload /\ last.sent = Some(m.token)
    /\ last.payload.challenge = challenge2

-----------------------------------------------------------------------------
(* Claims on the session token by itself, continued                        *)

-----------------------------------------------------------------------------
(* The checksum codec by itself: encode, then decode under some prefix      *)

\* the prefixes of tezos_consts, and three that are none of them
CodecPrefixes ==
    {ED25519_PUBLIC_KEY_PREFIX, SECP256K1_PUBLIC_KEY_PREFIX, P256_PUBLIC_KEY_PREFIX,
     ED25519_SIGNATURE_PREFIX, SECP256K1_SIGNATURE_PREFIX, P256_SIGNATURE_PREFIX,
     TZ1_ADDRESS_PREFIX, TZ2_ADDRESS_PREFIX, TZ3_ADDRESS_PREFIX,
     <<>>, <<0>>, <<4, 130, 43>>}

\* what is encoded, <<payload, prefix>>: the keys, the signatures and the
\* key hashes under the prefix of their kind, and payloads of other shapes
\* (empty, zero bytes in front, 63 and 80 bytes) under several prefixes
CodecPairs ==
    ({rawA, rawB, rawEdNoPoint} \X {ED25519_PUBLIC_KEY_PREFIX})
    \cup ({rawC, rawSpOff, rawSpBadTag} \X {SECP256K1_PUBLIC_KEY_PREFIX})
    \cup ({rawD, rawP2Off, rawP2BadTag} \X {P256_PUBLIC_KEY_PREFIX})
    \cup ({rsA1, rsA2, rsB1, rsA1flip, Slice(rsA1, 1, 63)} \X {ED25519_SIGNATURE_PREFIX})
    \cup ({rsC1, rsC1flip, rsZero} \X {SECP256K1_SIGNATURE_PREFIX})
    \cup ({rsD1, rsZero, [i \in 1..80 |-> 99 + i]} \X {P256_SIGNATURE_PREFIX})
    \cup ({Blake2b20(rawA), Blake2b20(rawB), Blake2b20(rawEdNoPoint), <<>>}
              \X {TZ1_ADDRESS_PREFIX})
    \cup ({Blake2b20(rawC), Blake2b20(rawSpOff)} \X {TZ2_ADDRESS_PREFIX})
    \cup ({Blake2b20(rawD), Blake2b20(rawP2Off)} \X {TZ3_ADDRESS_PREFIX})
    \cup {<<rsA1, <<4, 130, 43>>>>, <<<<>>, <<>>>>, <<<<0, 0, 0>>, <<>>>>,
          <<<<0, 255>>, <<0>>>>}

\* texts that come from a client and from no encoder: a changed last
\* character, a character outside base-58, a cut end, the bare four
\* characters, a 63-byte payload, and one text that is sound
CodecTexts ==
    {pkBadSum, pkNotB58, pkCut, pkShort, sigBadSum, sigNotB58, sigEdShort, pkA}

\* a payload is about to be encoded under a prefix, or a client's text is
\* about to be decoded
CodecInit ==
    /\ config = from_env(Env(TRUE, <<tzA>>, FALSE, None), KeyOne)
    /\ jars = [c \in Clients |-> None]
    /\ minted = {}
    /\ \/ \E pair \in CodecPairs :
             last = [op |-> "payload", payload |-> pair[1], prefix |-> pair[2]]
       \/ \E encoded \in CodecTexts : last = [op |-> "text", encoded |-> encoded]

Encode ==
    /\ last.op = "payload"
    /\ last' = [op |-> "encoded", payload |-> last.payload, prefix |-> last.prefix,
                encoded |-> b58_encode_with_prefix(last.payload, last.prefix)]
    /\ UNCHANGED <<config, jars, minted>>

Decode(expected_prefix) ==
    /\ last.op = "encoded"
    /\ last' = [op |-> "decoded", payload |-> last.payload, prefix |-> last.prefix,
                encoded |-> last.encoded, expected_prefix |-> expected_prefix,
                result |-> b58_decode_with_prefix_check(last.encoded, expected_prefix)]
    /\ UNCHANGED <<config, jars, minted>>

DecodeText(expected_prefix) ==
    /\ last.op = "text"
    /\ last' = [op |-> "checked", encoded |-> last.encoded,
                expected_prefix |-> expected_prefix,
                result |-> b58_decode_with_prefix_check(last.encoded, expected_prefix)]
    /\ UNCHANGED <<config, jars, minted>>

CodecNext ==
    \/ Encode
    \/ \E expected_prefix \in CodecPrefixes : Decode(expected_prefix)
    \/ \E expected_prefix \in CodecPrefixes : DecodeText(expected_prefix)

CodecSpec == CodecInit /\ [][CodecNext]_vars

\* C16: for every payload and every prefix, decoding under the prefix the
\* text that b58_encode_with_prefix made of the payload under that prefix
\* returns Ok(payload).
C16_CodecRoundTrip ==
    (last.op = "decoded" /\ last.expected_prefix = last.prefix) =>
        last.result = Ok(last.payload)

\* three zero bytes under the empty prefix came back: the text is "111"
\* followed by the digits of the checksum
C16_Witness ==
    /\ last.op = "decoded"
    /\ last.payload = <<0, 0, 0>>
    /\ last.prefix = <<>>
    /\ last.expected_prefix = <<>>
    /\ last.encoded = cdZeros
    /\ last.result = Ok(<<0, 0, 0>>)

-----------------------------------------------------------------------------
(* The key by itself: parse a key text, verify a signature text with it     *)

\* a key text, a signature text and a message hash are at hand
CurveInit ==
    /\ config = from_env(Env(TRUE, <<tzA>>, FALSE, None), KeyOne)
    /\ jars = [c \in Clients |-> None]
    /\ minted = {}
    /\ \E key_str \in LoginKeys, signature_b58 \in LoginSignatures,
          message_hash \in KnownDigests :
          last = [op |-> "texts", key_str |-> key_str,
                  signature_b58 |-> signature_b58, message_hash |-> message_hash]

ParseKey ==
    /\ last.op = "texts"
    /\ last' = [op |-> "parsed", key_str |-> last.key_str,
                signature_b58 |-> last.signature_b58,
                message_hash |-> last.message_hash,
                result |-> from_base58check(last.key_str)]
    /\ UNCHANGED <<config, jars, minted>>

VerifySignature ==
    /\ last.op = "parsed"
    /\ IsOk(last.result)
    /\ last' = [op |-> "verified", key_str |-> last.key_str,
                signature_b58 |-> last.signature_b58,
                message_hash |-> last.message_hash,
                key |-> last.result.val,
                result |-> verify_signature(last.result.val, last.signature_b58,
                                            last.message_hash)]
    /\ UNCHANGED <<config, jars, minted>>

CurveNext == ParseKey \/ VerifySignature

CurveSpec == CurveInit /\ [][CurveNext]_vars

\* the text is base-58 of bytes that begin with the prefix
EncodedUnder(text, prefix) ==
    /\ IsOk(bs58_decode(text))
    /\ StartsWith(bs58_decode(text).val, prefix)

Curves == {"Ed25519", "Secp256k1", "P256"}

KeyPrefixOf(curve) ==
    CASE curve = "Ed25519" -> ED25519_PUBLIC_KEY_PREFIX
      [] curve = "Secp256k1" -> SECP256K1_PUBLIC_KEY_PREFIX
      [] curve = "P256" -> P256_PUBLIC_KEY_PREFIX

SignaturePrefixOf(curve) ==
    CASE curve = "Ed25519" -> ED25519_SIGNATURE_PREFIX
      [] curve = "Secp256k1" -> SECP256K1_SIGNATURE_PREFIX
      [] curve = "P256" -> P256_SIGNATURE_PREFIX

\* C17: a key text encoded under one curve's key prefix is never parsed by
\* from_base58check into a key of another curve; and verify_signature with a
\* key of one curve answers a signature text encoded under another curve's
\* signature prefix with a ValidationError, never with Ok(true) or Ok(false).
C17_CrossCurveIsolation ==
    /\ (last.op = "parsed" /\ IsOk(last.result)) =>
          \A curve \in Curves :
              EncodedUnder(last.key_str, KeyPrefixOf(curve)) =>
                  last.result.val.curve = curve
    /\ last.op = "verified" =>
          \A curve \in Curves \ {last.key.curve} :
              EncodedUnder(last.signature_b58, SignaturePrefixOf(curve)) =>
                  /\ ~IsOk(last.result)
                  /\ last.result.err.kind = "ValidationError"

\* wallet A's Ed25519 key was given wallet C's secp256k1 signature
C17_Witness ==
    /\ last.op = "verified"
    /\ last.key_str = pkA
    /\ last.key.curve = "Ed25519"
    /\ last.signature_b58 = sigC1
    /\ EncodedUnder(sigC1, SECP256K1_SIGNATURE_PREFIX)
    /\ last.result = Err(ValidationError(<<"Base58Check prefix mismatch">>))

-----------------------------------------------------------------------------
(* Claims on the running service: logout, the login's answer               *)

\* C18: logout succeeds whether or not the request carried a session; it
\* answers with a redirect and a jar in which tezos_admin_session is cleared
\* (a removal cookie is sent when the request carried one), and with dev_mode
\* off auth_status on the jar that logout returned says authenticated: false.
C18_LogoutClears ==
    (last.op = "logout") =>
        /\ IsOk(last.result)
        /\ last.response.status = 303
        /\ last.response.location = Some("/login")
        /\ CookieJar_get(last.result.val.jar, "tezos_admin_session") = None
        /\ last.sent # None =>
              \E d \in last.response.set_cookies :
                  /\ d.removed
                  /\ d.cookie.name = "tezos_admin_session"
                  /\ d.cookie.value = <<>>
        /\ jars[last.client] = None
        /\ ~config.dev_mode =>
              auth_status(config, last.result.val.jar).val.authenticated = FALSE

\* wallet A, an administrator logged in under the key in force, logged out
C18_Witness ==
    /\ last.op = "logout"
    /\ ~config.dev_mode
    /\ Contains(config.admin_tezos_addresses, tzA)
    /\ \E m \in minted : /\ last.sent = Some(m.token)
                         /\ m.key = config.cookie_hmac_key
                         /\ m.address = tzA
    /\ auth_status(config, CookieJar_from_request(last.sent)).val.authenticated
    /\ jars[last.client] = None

\* C19: a login that succeeds answers 200, sets the session cookie, and its
\* body is a JSON object whose success field is true.
C19_LoginAnswersSuccessObject ==
    (last.op = "login" /\ IsOk(last.result)) =>
        /\ last.response.status = 200
        /\ \E d \in last.response.set_cookies :
              ~d.removed /\ d.cookie.name = "tezos_admin_session"
        /\ "success" \in DOMAIN last.response.body
        /\ last.response.body.success = TRUE

-----------------------------------------------------------------------------
(* Claims on the gate, continued                                           *)

\* C20: POST /api/admin/cache/cleanup is for administrators only: the
\* cleanup runs only for a request whose capability, as extract_admin_auth
\* gives it for the request's cookie and the configuration, is admin; every
\* other request is refused.
C20_CleanupAdminOnly ==
    (last.op = "cleanup"
     /\ ~is_admin(extract_admin_auth(config, CookieJar_from_request(last.sent)))) =>
        /\ ~last.result.ran
        /\ last.result.response.status # 200


-----------------------------------------------------------------------------
(* Claims on the order of the checks of tezos_login                        *)

\* the key texts from_base58check takes (each is a wallet's key text)
ParsedKeys == {w[1] : w \in WalletAddress}

\* the allowlist of the running configuration names the address
Allowlisted(pkh) ==
    \E i \in 1..Len(config.admin_tezos_addresses) :
        config.admin_tezos_addresses[i] = pkh

\* the submission's key parses and its pkh is not the address of that key
SubmittedOtherAddress ==
    /\ last.payload.public_key \in ParsedKeys
    /\ <<last.payload.public_key, last.payload.pkh>> \notin WalletAddress

\* C21: tezos_login checks in the order key parse, address match, signature,
\* allowlist, and the first check that fails decides the error: a key that
\* does not parse gives the ValidationError of the key, whatever the rest; a
\* pkh that is not the address of the key gives the ValidationError of the
\* mismatch, even with a signature that is malformed or does not verify and
\* with an address outside the allowlist; a signature of the key's curve that
\* the wallet did not make gives Unauthorized, allowlist or not.
C21_FirstFailingCheckDecides ==
    (last.op = "login") =>
        LET p == last.payload
        IN /\ p.public_key \notin ParsedKeys =>
                 /\ ~IsOk(last.result)
                 /\ last.result.err.kind = "ValidationError"
                 /\ last.result.err.msg[1] = "Invalid public key format or value: "
           /\ SubmittedOtherAddress =>
                 last.result = Err(ValidationError(
                     <<"Public key hash does not match the provided public key.">>))
           /\ SubmittedForeignSignature => last.result = Err(Unauthorized)

\* wallet A's key under wallet B's address, which no allowlist names, with a
\* signature whose checksum is wrong: the mismatch is what was answered
C21_Witness ==
    /\ last.op = "login"
    /\ last.payload = TezosLoginPayload(tzB, pkA, sigBadSum, challenge1)
    /\ SubmittedOtherAddress
    /\ ~Allowlisted(tzB)
    /\ last.response.status = 400
    /\ last.result.err.msg
          = <<"Public key hash does not match the provided public key.">>

\* wallet B, which administers nowhere, with a signature of wallet A's: 401
C21_WitnessSignature ==
    /\ last.op = "login"
    /\ last.payload = TezosLoginPayload(tzB, pkB, sigA1, challenge1)
    /\ SubmittedForeignSignature
    /\ ~Allowlisted(tzB)
    /\ last.result = Err(Unauthorized)

\* what verify_signature answers for the submission: the parsed key, the
\* submitted signature, the hash of the packed challenge
SubmittedVerification ==
    verify_signature(from_base58check(last.payload.public_key).val,
                     last.payload.signature,
                     Blake2b32(pack_micheline_string(last.payload.challenge).val))

\* the login result that goes with the answer verified of verify_signature
SignatureStepAnswers(verified, result) ==
    /\ verified = Ok(FALSE) => result = Err(Unauthorized)
    /\ (~IsOk(verified) /\ verified.err.kind = "ValidationError") => result = verified
    /\ (~IsOk(verified) /\ verified.err.kind # "ValidationError") =>
          /\ ~IsOk(result)
          /\ result.err.kind = "Internal"
          /\ result.err.msg[1] = "Signature verification processing error: "

\* signature texts that are malformed for every curve: a wrong checksum, a
\* character outside base-58, 63 bytes, the generic sig prefix
MalformedSignatures == {sigBadSum, sigNotB58, sigEdShort, sigGeneric}

\* C22: in the signature step of tezos_login (the key parsed, the address
\* matched), verify_signature answering false gives Unauthorized; a
\* ValidationError of verify_signature is returned as it is, and a malformed
\* signature (no base-58, wrong prefix, wrong checksum, wrong length) is such
\* a ValidationError; every other failure of verify_signature is wrapped as
\* Internal.
C22_SignatureStepErrors ==
    (last.op = "login" /\ <<last.payload.public_key, last.payload.pkh>> \in WalletAddress) =>
        /\ SignatureStepAnswers(SubmittedVerification, last.result)
        /\ last.payload.signature \in MalformedSignatures =>
              /\ ~IsOk(last.result)
              /\ last.result.err.kind = "ValidationError"
              /\ last.result.err.msg[1] \in
                    {"Base58 decode error: ", "Base58Check prefix mismatch",
                     "Base58Check checksum mismatch", "Invalid Ed25519 signature length"}

\* wallet A's login with a signature of 63 bytes: the verifier's own
\* ValidationError is the answer
C22_Witness ==
    /\ last.op = "login"
    /\ last.payload = TezosLoginPayload(tzA, pkA, sigEdShort, challenge1)
    /\ SubmittedVerification = Err(ValidationError(<<"Invalid Ed25519 signature length">>))
    /\ last.result = SubmittedVerification
    /\ last.response.status = 400

\* a failure of the verifier that is no ValidationError came back as Internal
C22_WitnessInternal ==
    /\ last.op = "login"
    /\ last.payload = TezosLoginPayload(tzP2Off, pkP2Off, sigD1, challenge1)
    /\ SubmittedVerification.err.kind = "Internal"
    /\ last.result.err.kind = "Internal"
    /\ last.result.err.msg[2] = "Internal"

\* key texts with a supported prefix, a right checksum and the curve's raw
\* length, whose bytes the curve's library takes for no point: one a curve
OffCurveKeys == {pkEdNoPoint, pkSpOff, pkP2Off}

\* C23: a key text with a supported prefix, a right checksum and the curve's
\* raw key length whose bytes the curve library rejects as a point is
\* rejected by from_base58check with a ValidationError, on each curve; so a
\* login with such a key fails at the key-parse step, with the
\* ValidationError of the key and status 400.
C23_OffCurveKeyRejectedAtParse ==
    (last.op = "login" /\ last.payload.public_key \in OffCurveKeys) =>
        /\ ~IsOk(from_base58check(last.payload.public_key))
        /\ from_base58check(last.payload.public_key).err.kind = "ValidationError"
        /\ last.result.err.kind = "ValidationError"
        /\ last.result.err.msg[1] = "Invalid public key format or value: "
        /\ last.response.status = 400

\* what the code does with such a key: from_base58check takes it, the login
\* goes on to the address match and the signature, and a well-formed
\* signature of the curve ends in the Internal error of the verifying key
OffCurveKeyReachesVerifier ==
    (last.op = "login" /\ last.payload.public_key \in OffCurveKeys) =>
        /\ IsOk(from_base58check(last.payload.public_key))
        /\ <<last.payload.public_key, last.payload.pkh>> \notin WalletAddress =>
              last.result = Err(ValidationError(
                  <<"Public key hash does not match the provided public key.">>))
        /\ (/\ <<last.payload.public_key, last.payload.pkh>> \in WalletAddress
            /\ last.payload.signature \in {sigA1, sigC1, sigD1}
            /\ IsOk(SubmittedVerification) \/ SubmittedVerification.err.kind = "Internal") =>
              /\ last.result.err.kind = "Internal"
              /\ last.response.status = 500

-----------------------------------------------------------------------------
(* Claims on the checksum codec, continued                                  *)

\* the last four of bytes are the first four of the double hash of the rest
ChecksumHolds(bytes) ==
    Slice(Sha256(Sha256(Slice(bytes, 1, Len(bytes) - 4))), 1, 4)
        = Slice(bytes, Len(bytes) - 3, Len(bytes))

\* the text decodes, is long enough for the prefix and a checksum, begins
\* with the prefix and ends with the checksum of what is before it
WellFormedUnder(encoded, expected_prefix) ==
    /\ IsOk(bs58_decode(encoded))
    /\ Len(bs58_decode(encoded).val) >= Len(expected_prefix) + 4
    /\ StartsWith(bs58_decode(encoded).val, expected_prefix)
    /\ ChecksumHolds(bs58_decode(encoded).val)

\* C24: b58_decode_with_prefix_check answers a ValidationError when the text
\* is no base-58, when its bytes are fewer than the prefix and four more, when
\* they do not begin with expected_prefix, or when their last four differ
\* from the first four of the double hash of what is before them; in every
\* other case it answers the bytes between the prefix and the checksum, which
\* may be none.  It answers no payload for a text that fails a check.
C24_DecodeChecks ==
    (last.op \in {"decoded", "checked"}) =>
        IF WellFormedUnder(last.encoded, last.expected_prefix)
        THEN last.result = Ok(Slice(bs58_decode(last.encoded).val,
                                    Len(last.expected_prefix) + 1,
                                    Len(bs58_decode(last.encoded).val) - 4))
        ELSE ~IsOk(last.result) /\ last.result.err.kind = "ValidationError"

\* key A's text with its last character changed, decoded under the Ed25519
\* key prefix: the prefix is there, the checksum is not
C24_Witness ==
    /\ last.op = "checked"
    /\ last.encoded = pkBadSum
    /\ last.expected_prefix = ED25519_PUBLIC_KEY_PREFIX
    /\ StartsWith(bs58_decode(pkBadSum).val, ED25519_PUBLIC_KEY_PREFIX)
    /\ ~ChecksumHolds(bs58_decode(pkBadSum).val)
    /\ last.result = Err(ValidationError(<<"Base58Check checksum mismatch">>))

\* each way to fail, and the empty payload, happened
C24_WitnessNoBase58 ==
    last.op = "checked" /\ last.encoded = sigNotB58
    /\ last.result.err.msg[1] = "Base58 decode error: "
C24_WitnessTooShort ==
    last.op = "checked" /\ last.encoded = pkShort /\ last.expected_prefix = <<>>
    /\ last.result = Err(ValidationError(<<"Invalid Base58Check data: too short">>))
C24_WitnessPrefix ==
    last.op = "checked" /\ last.encoded = pkA
    /\ last.expected_prefix = SECP256K1_PUBLIC_KEY_PREFIX
    /\ last.result = Err(ValidationError(<<"Base58Check prefix mismatch">>))
C24_WitnessEmptyPayload ==
    last.op = "decoded" /\ last.encoded = cdEmptyTz1
    /\ last.expected_prefix = TZ1_ADDRESS_PREFIX /\ last.result = Ok(<<>>)

-----------------------------------------------------------------------------
(* pack_micheline_string by itself                                          *)

\* strings held whole: the empty one, one byte, 255 and 256 bytes, a challenge
PackTexts ==
    {<<>>, <<65>>, [i \in 1..255 |-> 97], [i \in 1..256 |-> 98], challenge1, challenge2}

\* byte lengths of strings too long to hold here, as usize: each limb at its
\* ends and about the byte boundary; 2^32 is <<1, 0, 0>>
PackLimbs == {0, 1, 255, 256, 65535}
PackLengths == {<<h, m, l>> : h \in {0, 1, 2}, m \in PackLimbs, l \in PackLimbs}

\* a string is about to be packed: one held whole, or one of a given length
PackInit ==
    /\ config = from_env(Env(TRUE, <<tzA>>, FALSE, None), KeyOne)
    /\ jars = [c \in Clients |-> None]
    /\ minted = {}
    /\ \/ \E data \in PackTexts : last = [op |-> "string", data |-> data]
       \/ \E n \in PackLengths : last = [op |-> "long string", s_bytes_len |-> n]

\* pack_micheline_string on a string held whole
PackString ==
    /\ last.op = "string"
    /\ last' = [op |-> "packed", data |-> last.data,
                s_bytes_len |-> usize_of(Len(last.data)),
                result |-> pack_micheline_string(last.data)]
    /\ UNCHANGED <<config, jars, minted>>

\* pack_micheline_string on a string of the given length: what it has put
\* into packed before the string's own bytes; it has no path that fails
PackLongString ==
    /\ last.op = "long string"
    /\ last' = [op |-> "packed head", s_bytes_len |-> last.s_bytes_len,
                result |-> Ok(pack_micheline_head(last.s_bytes_len))]
    /\ UNCHANGED <<config, jars, minted>>

PackNext == PackString \/ PackLongString

PackSpec == PackInit /\ [][PackNext]_vars

\* the usize a four-byte big-endian length field stands for
LengthField(packed) ==
    <<0, packed[3] * 256 + packed[4], packed[5] * 256 + packed[6]>>

\* C25: pack_micheline_string(s) answers the bytes 5, 1, the byte length of
\* s in four bytes, the highest first, and the bytes of s; the length field
\* is the true byte length whenever it succeeds, and a string whose byte
\* length does not fit in 32 bits makes it fail, not answer a length field
\* cut down modulo 2^32.
C25_PackLengthIsTrueLength ==
    /\ last.op = "packed" =>
          /\ IsOk(last.result)
          /\ Slice(last.result.val, 1, 2) = <<5, 1>>
          /\ LengthField(last.result.val) = last.s_bytes_len
          /\ Slice(last.result.val, 7, Len(last.result.val)) = last.data
    /\ last.op = "packed head" =>
          IF last.s_bytes_len[1] = 0
          THEN /\ IsOk(last.result)
               /\ Slice(last.result.val, 1, 2) = <<5, 1>>
               /\ LengthField(last.result.val) = last.s_bytes_len
          ELSE ~IsOk(last.result)

\* what the code does: it always succeeds, and the length field is the byte
\* length modulo 2^32
PackTruncates ==
    (last.op \in {"packed", "packed head"}) =>
        /\ IsOk(last.result)
        /\ LengthField(last.result.val) = <<0, last.s_bytes_len[2], last.s_bytes_len[3]>>

\* a string of 2^32 bytes was packed with the length field 0
PackedFourGiB ==
    /\ last.op = "packed head"
    /\ last.s_bytes_len = <<1, 0, 0>>
    /\ last.result = Ok(<<5, 1, 0, 0, 0, 0>>)

-----------------------------------------------------------------------------
(* The service while time passes                                            *)

\* seconds the clock may go forward at once: half of seven days, and a
\* second more
TickSteps == {302400, 302401}

\* the oldest a token gets here, in seconds: seven days and a second
MaxAge == 604801

\* tokens minted in one run
MaxMinted == 2

\* the browser's store once the tokens have the ages of aged: a cookie is
\* kept until Max-Age seconds after the Set-Cookie that brought it
BrowserKeeps(held, aged) ==
    IF IsSome(held)
       /\ \A m \in aged : m.token = Unwrap(held) =>
              IsSome(m.max_age) /\ m.age >= Unwrap(m.max_age)
    THEN None
    ELSE held

\* step seconds pass: every token is that much older, and each browser drops
\* the cookie whose Max-Age is over
Tick(step) ==
    /\ minted # {}
    /\ \A m \in minted : m.age + step <= MaxAge
    /\ minted' = {[m EXCEPT !.age = @ + step] : m \in minted}
    /\ jars' = [c \in Clients |-> BrowserKeeps(jars[c], minted')]
    /\ last' = [op |-> "tick", step |-> step]
    /\ UNCHANGED config

\* the logins of wallets A and C, each signed as it should be
HonestSubmissions ==
    {TezosLoginPayload(tzA, pkA, sigA1, challenge1),
     TezosLoginPayload(tzC, pkC, sigC1, challenge1)}

\* what a client may send that kept a copy of every token: what its browser
\* holds, or a token minted before
Kept(c) == {jars[c]} \cup {Some(m.token) : m \in minted}

ExpiryNext ==
    \/ \E c \in Clients, payload \in HonestSubmissions :
          Cardinality(minted) < MaxMinted /\ Login(c, payload)
    \/ \E c \in Clients : Logout(c)
    \/ \E step \in TickSteps : Tick(step)
    \/ \E c \in Clients : \E sent \in Kept(c) : Status(c, sent)
    \/ \E c \in Clients : \E sent \in Kept(c) : Guarded(c, sent)
    \/ \E c \in Clients : \E sent \in Kept(c) : Extract(c, sent)

ExpirySpec == Init /\ [][ExpiryNext]_vars

\* the minted tokens the last request sent, whose address is allowlisted
SentMinted ==
    {m \in minted : /\ last.sent = Some(m.token)
                    /\ m.key = config.cookie_hmac_key
                    /\ Contains(config.admin_tezos_addresses, m.address)}

\* C26: the session expires by the cookie's Max-Age of 604800 seconds alone:
\* every session cookie is sent with that Max-Age, and verify_session_cookie,
\* extract_admin_auth and require_auth_middleware take a token signed with
\* the key for an allowlisted address whatever its age, also more than seven
\* days after the login that minted it.
C26_ExpiryByMaxAgeOnly ==
    /\ \A m \in minted :
          /\ m.max_age = Some(604800)
          /\ m.key = config.cookie_hmac_key =>
                verify_session_cookie(m.token, config.cookie_hmac_key)
                    = Some(TezosAdminSession(m.address))
    /\ (last.op = "extract" /\ config.enable_tezos_auth) =>
          \A m \in SentMinted : last.result = AdminAuth(FALSE, Some(m.address))
    /\ last.op = "guarded" =>
          \A m \in SentMinted : last.result = [next |-> TRUE]

\* the browser has dropped the cookie, its Max-Age being over, and a copy of
\* the token sent a second after the seven days got the capability
C26_Witness ==
    /\ last.op = "extract"
    /\ jars[last.client] = None
    /\ \E m \in SentMinted : m.age > 604800 /\ m.age > Unwrap(m.max_age)
    /\ config.enable_tezos_auth /\ ~config.dev_mode
    /\ is_admin(last.result)
    /\ IsSome(last.result.tezos_admin_address)

\* the same behind the route guard
C26_WitnessGuarded ==
    /\ last.op = "guarded"
    /\ jars[last.client] = None
    /\ \E m \in SentMinted : m.age > 604800
    /\ config.enable_tezos_auth /\ ~config.dev_mode
    /\ last.result.next

-----------------------------------------------------------------------------
(* Claims on one request at the gate, continued                             *)

\* C27: no capability that extract_admin_auth returns has is_dev_admin true
\* together with an address; and with the development bypass off, every
\* admin capability it returns has is_dev_admin false and an address that is
\* in the allowlist.
C27_CapabilityShape ==
    (last.op = "extract") =>
        /\ ~(last.result.is_dev_admin /\ IsSome(last.result.tezos_admin_address))
        /\ (~config.dev_mode /\ is_admin(last.result)) =>
              /\ ~last.result.is_dev_admin
              /\ IsSome(last.result.tezos_admin_address)
              /\ Allowlisted(Unwrap(last.result.tezos_admin_address))

\* bypass on and wallet C's session sent: the capability has the address and
\* not the development flag
C27_Witness ==
    /\ last.op = "extract"
    /\ config.enable_tezos_auth /\ config.dev_mode
    /\ last.sent = Some(SessionToken(tzC, config.cookie_hmac_key))
    /\ last.result = AdminAuth(FALSE, Some(tzC))

\* bypass off and wallet A's session sent where A administers
C27_WitnessBypassOff ==
    /\ last.op = "extract"
    /\ config.enable_tezos_auth /\ ~config.dev_mode
    /\ last.sent = Some(SessionToken(tzA, config.cookie_hmac_key))
    /\ is_admin(last.result)
    /\ Allowlisted(tzA)

-----------------------------------------------------------------------------
(* Requests of several clients in flight at once                            *)
(*                                                                         *)
(* Here last is a function of the client: its request as the service       *)
(* received it and, once answered, the answer.  A request is received with *)
(* the cookie the browser holds then, and answered later; between the two  *)
(* the requests of the other clients are received and answered.            *)

\* number of browsers with requests in flight
NumConcurrent == 2

ConcurrentClients == 1..NumConcurrent

\* the handler of each route, on the configuration, the cookie sent and the
\* body or the fresh UUID of the request
Handle(op, app_state, sent, input) ==
    CASE op = "challenge" -> get_tezos_challenge(input)
      [] op = "login" -> tezos_login(app_state, CookieJar_from_request(sent), input)
      [] op = "logout" -> logout(app_state, CookieJar_from_request(sent))
      [] op = "status" -> auth_status(app_state, CookieJar_from_request(sent))
      [] op = "extract" -> extract_admin_auth(app_state, CookieJar_from_request(sent))

\* the requests client c makes, <<route, body or UUID>>: client 1 has
\* wallet A, the others wallet C
ConcurrentRequests(c) ==
    {<<"login", IF c = 1 THEN TezosLoginPayload(tzA, pkA, sigA1, challenge1)
                ELSE TezosLoginPayload(tzC, pkC, sigC1, challenge1)>>,
     <<"challenge", Slice(challenge1, Len(ChallengeGreeting) + 1, Len(challenge1))>>,
     <<"logout", <<>>>>, <<"status", <<>>>>, <<"extract", <<>>>>}

\* wallets A and C administer; the bypass off, or on
ConcurrentInit ==
    /\ \E dev \in BOOLEAN :
          config = from_env(Env(TRUE, <<tzA, <<>>, tzC>>, dev, Some(Ok(KeyOne))), KeyOne)
    /\ jars = [c \in ConcurrentClients |-> None]
    /\ minted = {}
    /\ last = [c \in ConcurrentClients |-> [stage |-> "idle"]]

\* the service receives a request of client c; alone is the answer it gets
\* if nothing else happens before it is answered
Receive(c, op, input) ==
    /\ last[c].stage # "received"
    /\ last' = [last EXCEPT ![c] =
                   [stage |-> "received", op |-> op, sent |-> jars[c], input |-> input,
                    alone |-> Handle(op, config, jars[c], input),
                    meanwhile |-> {}]]
    /\ UNCHANGED <<config, jars, minted>>

\* the request of client c is answered with result; meanwhile of every
\* other request in flight notes a login or logout answered before it
Answered(c, result) ==
    LET r == last[c]
        set_cookies == IF r.op \in {"login", "logout"}
                       THEN into_response(result).set_cookies ELSE {}
    IN /\ jars' = [jars EXCEPT ![c] = ClientStore(@, set_cookies)]
       /\ minted' = minted \cup
             {[token |-> d.cookie.value, key |-> config.cookie_hmac_key,
               address |-> r.input.pkh, payload |-> r.input,
               max_age |-> d.cookie.max_age, age |-> 0] :
                 d \in {d \in set_cookies : ~d.removed}}
       /\ last' = [d \in ConcurrentClients |->
                      IF d = c
                      THEN [stage |-> "answered", op |-> r.op, sent |-> r.sent,
                            input |-> r.input, alone |-> r.alone,
                            meanwhile |-> r.meanwhile, result |-> result]
                      ELSE IF last[d].stage = "received"
                      THEN [last[d] EXCEPT !.meanwhile =
                                             @ \cup ({r.op} \cap {"login", "logout"})]
                      ELSE last[d]]
       /\ UNCHANGED config

\* the handler runs on the request of client c
Answer(c) ==
    /\ last[c].stage = "received"
    /\ Answered(c, Handle(last[c].op, config, last[c].sent, last[c].input))

ConcurrentNext ==
    \/ \E c \in ConcurrentClients : \E request \in ConcurrentRequests(c) :
          Receive(c, request[1], request[2])
    \/ \E c \in ConcurrentClients : Answer(c)

ConcurrentSpec == ConcurrentInit /\ [][ConcurrentNext]_vars

C28_WitnessLogout ==
    /\ last[1].stage = "answered"
    /\ last[1].op = "extract"
    /\ "logout" \in last[1].meanwhile
    /\ is_admin(last[1].result)
    /\ jars[2] = None

\* the status answered is what extract_admin_auth makes of the same request:
\* authenticated is is_admin(), and is_admin_address is there (and true)
\* just when the capability has an address
StatusAsExtract ==
    LET capability == extract_admin_auth(config, CookieJar_from_request(last.sent))
    IN /\ last.result.val.authenticated = is_admin(capability)
       /\ (last.result.val.is_admin_address = Some(TRUE))
              = IsSome(capability.tezos_admin_address)
       /\ last.result.val.is_admin_address \in {None, Some(TRUE)}

\* C29 (as stated): for every configuration, the feature disabled too, and
\* every cookie, auth_status reports authenticated:true exactly when
\* extract_admin_auth on the same inputs gives an admin capability, and
\* is_admin_address:true exactly when that capability has an address.
C29_Original ==
    (last.op = "status") => StatusAsExtract

\* C29 (amended): with enable_tezos_auth true, auth_status and
\* extract_admin_auth agree in that way; with enable_tezos_auth false,
\* extract_admin_auth gives the public capability, while auth_status, which
\* does not read the flag, still reports authenticated:true for an
\* allowlisted session or with dev_mode on.
C29_StatusAsExtractWhenEnabled ==
    (last.op = "status") =>
        IF config.enable_tezos_auth THEN StatusAsExtract
        ELSE /\ extract_admin_auth(config, CookieJar_from_request(last.sent))
                   = AdminAuth_public
             /\ last.result.val.authenticated
                   = (SentAllowlistedSession \/ config.dev_mode)
             /\ (last.result.val.is_admin_address = Some(TRUE)) = SentAllowlistedSession

\* feature on, bypass on, no cookie: authenticated without is_admin_address,
\* as the capability is the development one
C29_Witness ==
    /\ last.op = "status"
    /\ config.enable_tezos_auth /\ config.dev_mode
    /\ last.sent = None
    /\ last.result.val.authenticated
    /\ last.result.val.is_admin_address = None
    /\ extract_admin_auth(config, CookieJar_from_request(last.sent)) = AdminAuth(TRUE, None)

\* feature off and wallet C's session sent: the status says authenticated
\* with is_admin_address, the capability is the public one
StatusDisabledStillAuthenticated ==
    /\ last.op = "status"
    /\ ~config.enable_tezos_auth /\ ~config.dev_mode
    /\ last.sent = Some(SessionToken(tzC, config.cookie_hmac_key))
    /\ last.result.val.authenticated
    /\ last.result.val.is_admin_address = Some(TRUE)
    /\ ~is_admin(extract_admin_auth(config, CookieJar_from_request(last.sent)))

\* the tokens minted so far that the request sent carries, signed with the
\* key of config for an address in its allowlist
CopiesSent(sent) ==
    {m \in minted : /\ sent = Some(m.token)
                    /\ m.key = config.cookie_hmac_key
                    /\ Contains(config.admin_tezos_addresses, m.address)}

\* C30: logout changes nothing on the side of the service: it leaves the
\* configuration (key and allowlist) and every token issued as they are and
\* only takes the cookie out of the jar it answers with; so a copy of a
\* token minted before the logout still verifies after it, and the request
\* that presents it right after the logout still gets the capability with
\* the address.
C30_LogoutRevokesNothing ==
    /\ [][last'.op = "logout" =>
             /\ config' = config
             /\ minted' = minted
             /\ jars'[last'.client] = None
             /\ \A m \in minted :
                   verify_session_cookie(m.token, config'.cookie_hmac_key)
                       = verify_session_cookie(m.token, config.cookie_hmac_key)]_vars
    /\ [][(last.op = "logout" /\ last'.op = "extract" /\ config.enable_tezos_auth) =>
             \A m \in CopiesSent(last'.sent) :
                 /\ verify_session_cookie(m.token, config'.cookie_hmac_key)
                        = Some(TezosAdminSession(m.address))
                 /\ last'.result = AdminAuth(FALSE, Some(m.address))]_vars

\* no time has passed, the browser has no cookie, so it has logged out since
\* the login; a copy of the token of that login was sent and got the
\* capability with the address
C30_Witness ==
    /\ last.op = "extract"
    /\ minted # {}
    /\ \A m \in minted : m.age = 0
    /\ jars[last.client] = None
    /\ CopiesSent(last.sent) # {}
    /\ config.enable_tezos_auth /\ ~config.dev_mode
    /\ \E m \in CopiesSent(last.sent) : last.result = AdminAuth(FALSE, Some(m.address))
=============================================================================
